---- MODULE Spec2Model ----
(***************************************************************************)
(* The historical-snapshot pipeline of the "optimizedSolution" API route   *)
(* (src/pages/api/get-saved-results.ts): block resolution, holder          *)
(* building, balance aggregation, result store.                            *)
(*                                                                         *)
(* Encodings.                                                              *)
(*  - An ethers.BigNumber is a sequence of limbs in base 10^9, least       *)
(*    significant first, without leading zero limbs (zero is << >>), so    *)
(*    wei amounts above 2^53 and above 2^64 are exact.                     *)
(*  - A decimal string is the sequence of its characters.                  *)
(*  - An address is a natural number; 0 is the zero address.               *)
(***************************************************************************)
EXTENDS Integers, Sequences, FiniteSets, TLC

VARIABLES
    \* ---- balance aggregation (getEthBalancesgraph / getFallbackBalances)
    addresses,      \* the address list handed to getEthBalancesgraph
    blockNumber,    \* the block the balances are read at
    balances,       \* the array getEthBalancesgraph fills
    batchStart,     \* i of the batch loop: index of the batch's first chunk
    chunkState,     \* chunk index -> [st, retries, delay] for the chunks of the batch
    aggPc,          \* where getEthBalancesgraph is
    fbBalances,     \* the array getFallbackBalances fills
    fbNext,         \* i of getFallbackBalances' loop over its batches
    aggResult,      \* the array returned to the caller
    \* ---- upstream (chain node, aggregation contract)
    ethBalance,     \* address -> balance once funded
    fundingBlock,   \* the block from which the addresses hold their balance
    failedEntries,  \* addresses whose aggregate3 entry reports success=false
    failedQueries,  \* addresses whose individual getBalance call throws
    thrownCalls,    \* aggregate3 calls that have thrown so far
    callFailureBudget,  \* how many aggregate3 calls may throw in this run
    fsFaulty,       \* whether reads and writes of the files under data/ may throw
    runs,           \* the compute calls under way at once: call -> its locals
    \* ---- block resolution (getBlockNumberAtTimestamp / binarySearchBlock)
    blockNumberCache,   \* timestamp -> block, the in-memory cache
    blockCacheFile,     \* data/block-cache.json
    rsPc,               \* where getBlockNumberAtTimestamp is
    rsT,                \* its timestamp argument
    rsEst,              \* the block number Etherscan answered
    low, high, result, iterations, lastMid, consecutiveErrors,
                        \* the locals of binarySearchBlock
    rsResult,           \* the block number returned
    tried,              \* the sources asked so far in this call, in order
    failedSources,      \* those of them that gave no block
    resolved,           \* timestamp -> the block the last call for it returned
    origin,             \* timestamp -> where the block cached for it first came from
    probeFailures,      \* block probes that have failed so far
    probeBudget,        \* how many block probes may fail in this run
    estimateMisses,     \* Etherscan answers so far that were not the block asked for
    resolveCalls,       \* calls of getBlockNumberAtTimestamp so far
    \* ---- holder building (getBAYCHoldersAtBlock)
    holdersCache,       \* block -> holder array, the in-memory cache
    holdersTimestamps,  \* holdersCache._timestamps: block -> timestamp
    holdersCacheFile,   \* data/holders-cache.json
    optimalGraphQLBatchSize,
    holders,            \* the array the last call returned
    holdersPath,        \* the path that produced it
    holdersBlock,       \* the block the last call was made for
    fetchFailed,        \* whether a page request of the last call at PAGE_SIZE failed
    tokenOwners,        \* upstream: token id -> owner id, as the subgraph has it
    \* ---- the API handlers and getTotalEthValueOfHolders
    resultsFile,        \* data/results.json: <<implementationId, timestamp>> -> record
    plPc,               \* where getTotalEthValueOfHolders is
    plBlock,            \* its local blockNumber
    metrics,            \* its local metrics
    startTime,          \* its local startTime
    stageStart,         \* the start time of the running stage
    clock,              \* Date.now(), counted from the arrival of the last request
    trace,              \* the stages of the last run, in order
    response,           \* the last response sent: [status, body]
    lastRequest,        \* the last request received
    requests            \* requests received so far

aggVars == <<addresses, blockNumber, balances, batchStart, chunkState, aggPc,
             fbBalances, fbNext, aggResult>>
chainVars == <<ethBalance, fundingBlock, failedEntries, failedQueries,
              callFailureBudget, fsFaulty, runs>>
searchVars == <<low, high, result, iterations, lastMid, consecutiveErrors>>
rsVars == <<blockNumberCache, blockCacheFile, rsPc, rsT, rsEst, searchVars,
            rsResult, tried, failedSources, resolved, origin, probeFailures, probeBudget,
            estimateMisses, resolveCalls>>
holderVars == <<holdersCache, holdersTimestamps, holdersCacheFile,
                optimalGraphQLBatchSize, holders, holdersPath, holdersBlock,
                fetchFailed>>
plVars == <<resultsFile, plPc, plBlock, metrics, startTime, stageStart, clock,
            trace, response, lastRequest, requests>>
vars == <<aggVars, chainVars, thrownCalls, rsVars, holderVars, tokenOwners, plVars>>

Min(a, b) == IF a < b THEN a ELSE b
Max(a, b) == IF a > b THEN a ELSE b

(***************************************************************************)
(* ethers.BigNumber                                                        *)
(***************************************************************************)
LimbBase == 10^9

RECURSIVE bnNorm(_)
bnNorm(x) ==
    IF x = << >> THEN << >>
    ELSE IF x[Len(x)] = 0 THEN bnNorm(SubSeq(x, 1, Len(x) - 1))
    ELSE x

bnLimb(x, k) == IF k <= Len(x) THEN x[k] ELSE 0

RECURSIVE bnAddFrom(_, _, _, _)
bnAddFrom(x, y, k, carry) ==
    IF k > Len(x) /\ k > Len(y)
    THEN IF carry = 0 THEN << >> ELSE <<carry>>
    ELSE LET s == bnLimb(x, k) + bnLimb(y, k) + carry
         IN  <<s % LimbBase>> \o bnAddFrom(x, y, k + 1, s \div LimbBase)

\* BigNumber.from(0)
bnZero == << >>

\* a.add(b)
bnAdd(x, y) == bnNorm(bnAddFrom(x, y, 1, 0))

\* BigNumber.from(n) for a JavaScript number 0 <= n < 2^31
bnFromInt(n) == bnNorm(<<n % LimbBase, n \div LimbBase>>)

\* ethers.utils.parseEther of a whole number of ether: n * 10^18 wei
parseEther(n) == bnNorm(<<0, 0>> \o bnFromInt(n))

RECURSIVE bnSumRange(_, _, _)
bnSumRange(arr, lo, hi) ==
    IF lo > hi THEN bnZero
    ELSE IF lo = hi THEN arr[lo]
    ELSE LET mid == (lo + hi) \div 2
         IN  bnAdd(bnSumRange(arr, lo, mid), bnSumRange(arr, mid + 1, hi))

\* balances.reduce((sum, balance) => sum.add(balance), BigNumber.from(0));
\* add is associative, so the sum is evaluated as a balanced tree of adds
sumBalances(arr) == bnSumRange(arr, 1, Len(arr))

(***************************************************************************)
(* Decimal strings: BigNumber.toString, BigNumber.from, formatEther        *)
(***************************************************************************)
DigitChars == <<"0", "1", "2", "3", "4", "5", "6", "7", "8", "9">>

\* Number.prototype.toString for 0 <= n
RECURSIVE IntToString(_)
IntToString(n) ==
    IF n < 10 THEN <<DigitChars[n + 1]>>
    ELSE Append(IntToString(n \div 10), DigitChars[(n % 10) + 1])

\* s padded with zeros on the left to at least w characters
RECURSIVE PadStart(_, _)
PadStart(s, w) == IF Len(s) >= w THEN s ELSE PadStart(<<"0">> \o s, w)

\* The nine digits of each of the limbs k, k-1, ..., 1
RECURSIVE LimbsToString(_, _)
LimbsToString(x, k) ==
    IF k = 0 THEN << >>
    ELSE PadStart(IntToString(bnLimb(x, k)), 9) \o LimbsToString(x, k - 1)

\* Mutant: the digits of the nearest number with 16 significant digits
bnToString_rounded(x) ==
    LET s == IF x = << >> THEN <<"0">>
             ELSE IntToString(x[Len(x)]) \o LimbsToString(x, Len(x) - 1)
    IN  [i \in 1..Len(s) |-> IF i <= 16 THEN s[i] ELSE "0"]

\* BigNumber.prototype.toString: the decimal digits
bnToString(x) ==
    IF x = << >> THEN <<"0">>
    ELSE IntToString(x[Len(x)]) \o LimbsToString(x, Len(x) - 1)

DigitValue(c) == CHOOSE d \in 0..9 : DigitChars[d + 1] = c

\* The number written by the digits s (fewer than ten of them)
RECURSIVE StringToInt(_)
StringToInt(s) ==
    IF s = << >> THEN 0
    ELSE StringToInt(SubSeq(s, 1, Len(s) - 1)) * 10 + DigitValue(s[Len(s)])

\* BigNumber.from(decimal string): nine digits to the limb, from the right
RECURSIVE StringToLimbs(_)
StringToLimbs(s) ==
    IF Len(s) <= 9 THEN <<StringToInt(s)>>
    ELSE <<StringToInt(SubSeq(s, Len(s) - 8, Len(s)))>>
            \o StringToLimbs(SubSeq(s, 1, Len(s) - 9))

bnFromString(s) == bnNorm(StringToLimbs(s))

\* fraction.match(/^([0-9]*[1-9]|0)(0*)/)[1]: without its trailing zeros,
\* but never empty
RECURSIVE StripTrailingZeros(_)
StripTrailingZeros(s) ==
    IF Len(s) > 1 /\ s[Len(s)] = "0"
    THEN StripTrailingZeros(SubSeq(s, 1, Len(s) - 1))
    ELSE s

\* Mutant: a whole number of ether is written without a fraction
formatEther_whole(wei) ==
    LET whole == bnToString(bnNorm(SubSeq(wei, 3, Len(wei))))
        fraction == StripTrailingZeros(LimbsToString(wei, 2))
    IN  IF fraction = <<"0">> THEN whole ELSE whole \o <<".">> \o fraction

\* ethers.utils.formatEther (formatUnits with 18 decimals): the whole part,
\* a point, and the 18 fraction digits without trailing zeros
formatEther(wei) ==
    LET whole == bnToString(bnNorm(SubSeq(wei, 3, Len(wei))))
        fraction == StripTrailingZeros(LimbsToString(wei, 2))
    IN  whole \o <<".">> \o fraction

(***************************************************************************)
(* Upstream: the chain node and the aggregation contract                   *)
(***************************************************************************)
\* An address below CaseOffset is the lowercase spelling of an address, the
\* number CaseOffset above it its mixed-case (checksummed) spelling
CaseOffset == 1000
ZeroAddress == 0
Checksummed(a) == a + CaseOffset

\* String.prototype.toLowerCase on an address
toLowerCase(a) == IF a >= CaseOffset THEN a - CaseOffset ELSE a

\* The balance of address a, in either spelling, at block b
getEthBalance(a, b) ==
    IF b >= fundingBlock THEN ethBalance[toLowerCase(a)] ELSE bnZero

\* One entry of aggregate3's answer: allowFailure is true, so a failed call
\* is reported by success = FALSE and empty return data ("0x"); a successful
\* one returns the 32-byte word ("0x" and 64 hex digits).
aggregate3Entry(a, blockTag) ==
    IF a \in failedEntries
    THEN [success |-> FALSE, length |-> 2, word |-> bnZero]
    ELSE [success |-> TRUE, length |-> 66, word |-> getEthBalance(a, blockTag)]

aggregate3(chunk, blockTag) ==
    [j \in 1..Len(chunk) |-> aggregate3Entry(chunk[j], blockTag)]

(***************************************************************************)
(* getEthBalancesgraph                                                     *)
(***************************************************************************)
\* const chunkSize = 5000: the code is written for any chunk size, and the
\* model runs it with a small one so that lists of several chunks are checked
chunkSize == 2
concurrencyLimit == 3
maxRetries == 3

\* for (let i = 0; i < addresses.length; i += chunkSize) chunks.push(...)
NumChunks(addrs) == (Len(addrs) + chunkSize - 1) \div chunkSize

\* addresses.slice(i, i + chunkSize) for the chunk with index c (from 0)
ChunkOf(addrs, c) ==
    SubSeq(addrs, c * chunkSize + 1, Min((c + 1) * chunkSize, Len(addrs)))

\* Mutant: the offset of the chunk within its batch only
chunkOffset_inBatch(i, batchIndex) == batchIndex * chunkSize

\* const chunkOffset = (i + batchIndex) * chunkSize
chunkOffset(i, batchIndex) == (i + batchIndex) * chunkSize

\* new Array(addresses.length).fill(BigNumber.from(0))
ZeroBalances(n) == [p \in 1..n |-> bnZero]

\* Mutant: every remaining chunk is in the batch
BatchOf_all(i, addrs) ==
    [c \in i..(NumChunks(addrs) - 1) |-> [st |-> "calling", retries |-> 0, delay |-> 0]]

\* The chunks of the batch that starts at chunk i, each with its call issued
BatchOf(i, addrs) ==
    [c \in i..(Min(i + concurrencyLimit, NumChunks(addrs)) - 1) |->
        [st |-> "calling", retries |-> 0, delay |-> 0]]

\* Mutant: a chunk with a failed entry stores none of its entries
StoreChunkResults_allOrNothing(bal, i, batchIndex, chunkResults) ==
    LET off == chunkOffset(i, batchIndex)
    IN  [p \in 1..Len(bal) |->
            IF p > off /\ p <= off + Len(chunkResults)
               /\ \A j \in 1..Len(chunkResults) :
                     chunkResults[j].success /\ chunkResults[j].length >= 66
            THEN chunkResults[p - off].word
            ELSE bal[p]]

\* The loop over chunkResults: entry j goes to position chunkOffset + j
StoreChunkResults(bal, i, batchIndex, chunkResults) ==
    LET off == chunkOffset(i, batchIndex)
    IN  [p \in 1..Len(bal) |->
            IF p > off /\ p <= off + Len(chunkResults)
               /\ chunkResults[p - off].success
               /\ chunkResults[p - off].length >= 66
            THEN chunkResults[p - off].word
            ELSE bal[p]]

\* getEthBalancesgraph is entered: the array is zeroed and the first batch of
\* chunk calls is issued; with no address there is no chunk and it returns.
EnterAggregation ==
    /\ aggPc = "start"
    /\ balances' = ZeroBalances(Len(addresses))
    /\ batchStart' = 0
    /\ chunkState' = BatchOf(0, addresses)
    /\ IF NumChunks(addresses) = 0
       THEN aggPc' = "returned" /\ aggResult' = ZeroBalances(0)
       ELSE aggPc' = "batch" /\ UNCHANGED aggResult
    /\ UNCHANGED <<addresses, blockNumber, fbBalances, fbNext, chainVars, thrownCalls>>

\* await graphContract.aggregate3(calls, {blockTag}) returns for chunk c
Aggregate3Returns(c) ==
    /\ c \in DOMAIN chunkState
    /\ chunkState[c].st = "calling"
    /\ balances' = StoreChunkResults(balances, batchStart, c - batchStart,
                        aggregate3(ChunkOf(addresses, c), blockNumber))
    /\ chunkState' = [chunkState EXCEPT ![c].st = "done"]
    /\ UNCHANGED <<addresses, blockNumber, batchStart, aggPc, fbBalances, fbNext,
                   aggResult, chainVars, thrownCalls>>

\* Mutant: the same delay before every retry
backoffDelay_fixed(retries) == 500

\* 500 * Math.pow(2, retries - 1), in milliseconds
backoffDelay(retries) == 500 * 2^(retries - 1)

\* The call throws: retries++, rethrown once retries > maxRetries, otherwise
\* retried after the backoff
Aggregate3Throws(c) ==
    /\ c \in DOMAIN chunkState
    /\ chunkState[c].st = "calling"
    /\ thrownCalls < callFailureBudget
    /\ thrownCalls' = thrownCalls + 1
    /\ chunkState' = [chunkState EXCEPT
            ![c].retries = @ + 1,
            ![c].delay = IF chunkState[c].retries + 1 > maxRetries THEN @
                         ELSE backoffDelay(chunkState[c].retries + 1),
            ![c].st = IF chunkState[c].retries + 1 > maxRetries
                      THEN "rejected" ELSE "backoff"]
    /\ UNCHANGED <<addresses, blockNumber, balances, batchStart, aggPc, fbBalances,
                   fbNext, aggResult, chainVars>>

\* setTimeout(r, 500 * 2^(retries-1)) fires: the call is issued again
BackoffElapsed(c) ==
    /\ c \in DOMAIN chunkState
    /\ chunkState[c].st = "backoff"
    /\ chunkState' = [chunkState EXCEPT ![c].st = "calling"]
    /\ UNCHANGED <<addresses, blockNumber, balances, batchStart, aggPc, fbBalances,
                   fbNext, aggResult, chainVars, thrownCalls>>

\* await Promise.all(batchPromises) resolves: next batch, or return balances
BatchResolved ==
    /\ aggPc = "batch"
    /\ \A c \in DOMAIN chunkState : chunkState[c].st = "done"
    /\ IF batchStart + concurrencyLimit < NumChunks(addresses)
       THEN /\ batchStart' = batchStart + concurrencyLimit
            /\ chunkState' = BatchOf(batchStart + concurrencyLimit, addresses)
            /\ UNCHANGED <<aggPc, aggResult>>
       ELSE /\ aggPc' = "returned"
            /\ aggResult' = balances
            /\ UNCHANGED <<batchStart, chunkState>>
    /\ UNCHANGED <<addresses, blockNumber, balances, fbBalances, fbNext, chainVars,
                   thrownCalls>>

(***************************************************************************)
(* getFallbackBalances                                                     *)
(***************************************************************************)
\* const batchSize = 50, likewise run with a small batch size
batchSize == 3
fallbackConcurrencyLimit == 4

NumFallbackBatches(addrs) == (Len(addrs) + batchSize - 1) \div batchSize

\* provider.getBalance(address, blockNumber), a thrown call giving 0
individualBalance(a, b) ==
    IF a \in failedQueries THEN bnZero ELSE getEthBalance(a, b)

\* Mutant: of the batches of a round only the first is written
StoreFallbackGroup_firstBatch(bal, addrs, i, b) ==
    LET from == i * batchSize
        upto == Min((i + 1) * batchSize, Len(addrs))
    IN  [p \in 1..Len(bal) |->
            IF p > from /\ p <= upto THEN individualBalance(addrs[p], b)
            ELSE bal[p]]

\* The batches i .. i + concurrencyLimit - 1 written into the array: batch k
\* holds the addresses from startIndex = k * batchSize on
StoreFallbackGroup(bal, addrs, i, b) ==
    LET from == i * batchSize
        upto == Min((i + fallbackConcurrencyLimit) * batchSize, Len(addrs))
    IN  [p \in 1..Len(bal) |->
            IF p > from /\ p <= upto THEN individualBalance(addrs[p], b)
            ELSE bal[p]]

\* Mutant: the rejection of Promise.all is not caught
BatchRejected_rethrow ==
    /\ aggPc = "batch"
    /\ \E c \in DOMAIN chunkState : chunkState[c].st = "rejected"
    /\ aggPc' = "raised"
    /\ UNCHANGED <<addresses, blockNumber, balances, batchStart, chunkState,
                   fbBalances, fbNext, aggResult, chainVars, thrownCalls>>

\* Promise.all rejects with the first chunk that gave up: the catch block
\* calls getFallbackBalances for the whole address list
BatchRejected ==
    /\ aggPc = "batch"
    /\ \E c \in DOMAIN chunkState : chunkState[c].st = "rejected"
    /\ fbBalances' = ZeroBalances(Len(addresses))
    /\ fbNext' = 0
    /\ aggPc' = "fallback"
    /\ UNCHANGED <<addresses, blockNumber, balances, batchStart, chunkState,
                   aggResult, chainVars, thrownCalls>>

\* One round of the fallback loop: concurrencyLimit batches of batchSize
\* individual queries complete; after the last round the array is returned
FallbackRound ==
    /\ aggPc = "fallback"
    /\ fbBalances' = StoreFallbackGroup(fbBalances, addresses, fbNext, blockNumber)
    /\ IF fbNext + fallbackConcurrencyLimit < NumFallbackBatches(addresses)
       THEN /\ fbNext' = fbNext + fallbackConcurrencyLimit
            /\ UNCHANGED <<aggPc, aggResult>>
       ELSE /\ aggPc' = "returned"
            /\ aggResult' = fbBalances'
            /\ UNCHANGED fbNext
    /\ UNCHANGED <<addresses, blockNumber, balances, batchStart, chunkState,
                   chainVars, thrownCalls>>

(***************************************************************************)
(* Upstream: block timestamps, the Etherscan block-by-time index           *)
(***************************************************************************)
\* The chain: its head, and one block every BlockInterval seconds, block
\* ScenarioBlock being mined at ScenarioTime (May 1, 2022)
ScenarioTime == 1651363200
ScenarioBlock == 14723000
BlockInterval == 13
LatestBlock == ScenarioBlock + 10000

BlockTimestamp(b) == ScenarioTime + (b - ScenarioBlock) * BlockInterval

\* The latest block mined at or before t: what getblocknobytime with
\* closest=before answers
BlockBefore(t) == ScenarioBlock + (t - ScenarioTime) \div BlockInterval

\* By how many blocks an answer of the index may miss that block
EstimateErrors == {0, -20, 20}

\* provider.getBlock(b): no block above the head; below it the block, or
\* null, or a thrown error, the last two at most probeBudget times in a run
ProbeOutcomes(b) ==
    IF b > LatestBlock THEN {"null"}
    ELSE {"ok"} \cup (IF probeFailures < probeBudget THEN {"null", "throw"} ELSE {})

(***************************************************************************)
(* FALLBACK_DEMO_DATA, hasFallbackData, getFallbackBlockNumber             *)
(***************************************************************************)
\* Object.keys of FALLBACK_DEMO_DATA.blocks: integer keys, in ascending order
FallbackTimestamps == <<1546300800, 1577836800, 1609459200, 1651363200>>
FallbackBlocks ==
    (1651363200 :> 14723000) @@ (1609459200 :> 11565019) @@
    (1577836800 :> 9193266) @@ (1546300800 :> 6988614)

Abs(x) == IF x < 0 THEN -x ELSE x

hasFallbackData(timestamp) ==
    \/ timestamp \in DOMAIN FallbackBlocks
    \/ \E k \in 1..Len(FallbackTimestamps) :
          Abs(FallbackTimestamps[k] - timestamp) < 86400

\* The first of the timestamps, in the order given, that is closest to t
RECURSIVE ClosestIn(_, _, _, _)
ClosestIn(ts, t, k, closest) ==
    IF k > Len(ts) THEN closest
    ELSE ClosestIn(ts, t, k + 1,
                   IF Abs(ts[k] - t) < Abs(closest - t) THEN ts[k] ELSE closest)

getFallbackBlockNumber(timestamp) ==
    IF timestamp \in DOMAIN FallbackBlocks THEN FallbackBlocks[timestamp]
    ELSE FallbackBlocks[ClosestIn(FallbackTimestamps, timestamp, 2, FallbackTimestamps[1])]

(***************************************************************************)
(* getBlockNumberAtTimestamp, binarySearchBlock                            *)
(***************************************************************************)
\* Object.keys(blockNumberCache).map(Number), in ascending order
RECURSIVE SortedSeq(_)
SortedSeq(S) ==
    IF S = {} THEN << >>
    ELSE LET m == CHOOSE x \in S : \A y \in S : x <= y
         IN  <<m>> \o SortedSeq(S \ {m})

\* .filter(t => Math.abs(t - timestampInt) < 600)
nearbyTimestamps(cache, t) == {c \in DOMAIN cache : Abs(c - t) < 600}

\* Mutant: the first of the nearby timestamps is used, not the closest
closestTimestamp_first(cache, t) == SortedSeq(nearbyTimestamps(cache, t))[1]

\* nearbyTimestamps.reduce((prev, curr) => |curr - t| < |prev - t| ? curr : prev)
closestTimestamp(cache, t) ==
    LET ks == SortedSeq(nearbyTimestamps(cache, t))
    IN  ClosestIn(ks, t, 2, ks[1])

\* Whether a read or a write of a file under data/ succeeds: any of them may
\* throw when the file system is faulty
FileOutcomes == IF fsFaulty THEN BOOLEAN ELSE {TRUE}

\* Where the block that a call caches for t first came from: a source asked
\* for t itself, the table included, or, when the call has made no request,
\* wherever the entry it reuses came from
OriginOf(t) ==
    IF rsPc \in {"verify", "latest", "search"}
    THEN [at |-> t, upstream |-> rsPc # "latest"]
    ELSE origin[closestTimestamp(blockNumberCache, t)]

\* Mutant: the block is returned without being put into the cache
CacheAndReturn_forgets(t, b) ==
    /\ UNCHANGED <<blockNumberCache, blockCacheFile>>
    /\ rsPc' = "returned"
    /\ rsResult' = b
    /\ resolved' = (t :> b) @@ resolved
    /\ origin' = (t :> OriginOf(t)) @@ origin

\* blockNumberCache[String(timestamp)] = blockNumber; saveBlockNumberCache(),
\* which catches and logs a failed write
CacheAndReturn(t, b) ==
    /\ blockNumberCache' = (t :> b) @@ blockNumberCache
    /\ \E written \in FileOutcomes :
          blockCacheFile' = IF written THEN blockNumberCache' ELSE blockCacheFile
    /\ rsPc' = "returned"
    /\ rsResult' = b
    /\ resolved' = (t :> b) @@ resolved
    /\ origin' = (t :> OriginOf(t)) @@ origin

\* binarySearchBlock(lo, hi, target) up to its loop
StartSearch(lo, hi) ==
    /\ rsPc' = "search"
    /\ low' = lo /\ high' = hi /\ result' = hi
    /\ iterations' = 0 /\ lastMid' = 0 /\ consecutiveErrors' = 0

\* Mutant: a failed index lookup is raised to the caller
AfterIndexFailure_raise == "error"

\* Both the catch block and the status check fall through to binary search
AfterIndexFailure == "latest"

\* getBlockNumberAtTimestamp(t) up to its first request: the exact cache hit
\* (a cached block 0 is falsy and counts as a miss), the shortcut for a
\* cached timestamp less than 30 s away, otherwise the Etherscan request
getBlockNumberAtTimestamp(t) ==
    /\ rsPc \in {"idle", "returned", "error"}
    /\ rsT' = t
    /\ IF t \in DOMAIN blockNumberCache /\ blockNumberCache[t] # 0
       THEN /\ rsPc' = "returned"
            /\ rsResult' = blockNumberCache[t]
            /\ resolved' = (t :> blockNumberCache[t]) @@ resolved
            /\ UNCHANGED origin
            /\ tried' = << >>
            /\ UNCHANGED <<blockNumberCache, blockCacheFile>>
       ELSE IF /\ nearbyTimestamps(blockNumberCache, t) # {}
               /\ Abs(t - closestTimestamp(blockNumberCache, t)) < 30
       THEN /\ CacheAndReturn(t, blockNumberCache[closestTimestamp(blockNumberCache, t)])
            /\ tried' = << >>
       ELSE /\ rsPc' = "etherscan"
            /\ tried' = <<"index">>
            /\ UNCHANGED <<blockNumberCache, blockCacheFile, rsResult, resolved, origin>>
    /\ failedSources' = {}
    /\ resolveCalls' = resolveCalls + 1
    /\ UNCHANGED <<rsEst, searchVars, probeFailures, probeBudget, estimateMisses>>

\* The Etherscan request fails, or answers with a status other than '1'
EtherscanFails ==
    /\ rsPc = "etherscan"
    /\ rsPc' = AfterIndexFailure
    /\ failedSources' = failedSources \cup {"index"}
    /\ UNCHANGED <<blockNumberCache, blockCacheFile, rsT, rsEst, searchVars,
                   rsResult, tried, resolved, origin, probeFailures, estimateMisses>>

\* Etherscan answers a block number: the block is fetched to verify it
EtherscanAnswers(err) ==
    /\ rsPc = "etherscan"
    /\ BlockBefore(rsT) + err >= 0
    /\ rsEst' = BlockBefore(rsT) + err
    /\ rsPc' = "verify"
    /\ estimateMisses' = IF err = 0 THEN estimateMisses ELSE estimateMisses + 1
    /\ UNCHANGED <<blockNumberCache, blockCacheFile, rsT, searchVars, rsResult,
                   tried, failedSources, resolved, origin, probeFailures>>

\* currentProvider.getBlock(blockNumber) of the Etherscan answer
VerifyAnswers(outcome) ==
    /\ rsPc = "verify"
    /\ outcome \in ProbeOutcomes(rsEst)
    /\ probeFailures' = IF outcome = "ok" THEN probeFailures ELSE probeFailures + 1
    /\ CASE outcome = "throw" ->
              \* caught by the Etherscan catch block
              /\ rsPc' = AfterIndexFailure
              /\ failedSources' = failedSources \cup {"index"}
              /\ UNCHANGED <<blockNumberCache, blockCacheFile, searchVars, rsResult,
                             resolved, origin>>
         [] outcome = "null" ->
              \* cannot verify: the Etherscan answer is used as it is
              /\ CacheAndReturn(rsT, rsEst)
              /\ UNCHANGED <<searchVars, failedSources>>
         [] outcome = "ok" ->
              IF Abs(BlockTimestamp(rsEst) - rsT) < 120
              THEN /\ CacheAndReturn(rsT, rsEst)
                   /\ UNCHANGED <<searchVars, failedSources>>
              ELSE /\ IF BlockTimestamp(rsEst) < rsT
                      THEN StartSearch(rsEst, rsEst + 1000)
                      ELSE StartSearch(Max(0, rsEst - 1000), rsEst)
                   /\ UNCHANGED <<blockNumberCache, blockCacheFile, rsResult,
                                  resolved, origin, failedSources>>
    /\ UNCHANGED <<rsT, rsEst, tried, estimateMisses>>

\* provider.getBlockNumber() answers: binary search over the whole chain
LatestAnswers ==
    /\ rsPc = "latest"
    /\ tried' = Append(tried, "search")
    /\ StartSearch(0, LatestBlock)
    /\ UNCHANGED <<blockNumberCache, blockCacheFile, rsT, rsEst, rsResult,
                   failedSources, resolved, origin, probeFailures, estimateMisses>>

\* provider.getBlockNumber() throws: the outer catch block uses the table if
\* it has an entry within a day, and otherwise rethrows
LatestThrows ==
    /\ rsPc = "latest"
    /\ tried' = tried \o <<"search", "table">>
    /\ IF hasFallbackData(rsT)
       THEN /\ CacheAndReturn(rsT, getFallbackBlockNumber(rsT))
            /\ failedSources' = failedSources \cup {"search"}
       ELSE /\ rsPc' = "error"
            /\ failedSources' = failedSources \cup {"search", "table"}
            /\ UNCHANGED <<blockNumberCache, blockCacheFile, rsResult, resolved, origin>>
    /\ UNCHANGED <<rsT, rsEst, searchVars, probeFailures, estimateMisses>>

\* const mid = Math.floor((low + high) / 2)
Mid == (low + high) \div 2

\* Mutant: the loop has no iteration limit
LoopContinues_unlimited == low <= high /\ Mid # lastMid

\* while (low <= high && iterations < 20), and no break on a repeated mid
LoopContinues == low <= high /\ iterations < 20 /\ Mid # lastMid

\* One iteration of the loop of binarySearchBlock: provider.getBlock(mid)
\* answers; on the third consecutive failure the loop is left and the result
\* cached and returned
SearchProbe(outcome) ==
    /\ rsPc = "search"
    /\ LoopContinues
    /\ outcome \in ProbeOutcomes(Mid)
    /\ iterations' = iterations + 1
    /\ lastMid' = Mid
    /\ probeFailures' = IF outcome = "ok" THEN probeFailures ELSE probeFailures + 1
    /\ IF outcome = "ok"
       THEN /\ consecutiveErrors' = 0
            /\ IF BlockTimestamp(Mid) < rsT
               THEN low' = Mid + 1 /\ UNCHANGED <<high, result>>
               ELSE result' = Mid /\ high' = Mid - 1 /\ UNCHANGED low
            /\ UNCHANGED <<blockNumberCache, blockCacheFile, rsPc, rsResult, resolved, origin>>
       ELSE /\ consecutiveErrors' = consecutiveErrors + 1
            /\ UNCHANGED result
            /\ IF consecutiveErrors + 1 >= 3
               THEN /\ CacheAndReturn(rsT, result)
                    /\ UNCHANGED <<low, high>>
               ELSE /\ IF outcome = "throw" /\ Mid = low
                       THEN low' = low + 1 /\ UNCHANGED high
                       ELSE high' = Mid - 1 /\ UNCHANGED low
                    /\ UNCHANGED <<blockNumberCache, blockCacheFile, rsPc, rsResult,
                                   resolved, origin>>
    /\ UNCHANGED <<rsT, rsEst, tried, failedSources, estimateMisses>>

\* The loop ends: the result is cached and returned
SearchExit ==
    /\ rsPc = "search"
    /\ ~LoopContinues
    /\ CacheAndReturn(rsT, result)
    /\ UNCHANGED <<rsT, rsEst, searchVars, tried, failedSources, probeFailures,
                   estimateMisses>>

InitResolver ==
    /\ blockNumberCache = << >> /\ blockCacheFile = << >>
    /\ rsPc = "idle" /\ rsT = 0 /\ rsEst = 0
    /\ low = 0 /\ high = 0 /\ result = 0
    /\ iterations = 0 /\ lastMid = 0 /\ consecutiveErrors = 0
    /\ rsResult = 0 /\ tried = << >> /\ failedSources = {}
    /\ resolved = << >> /\ origin = << >> /\ probeFailures = 0 /\ resolveCalls = 0
    /\ estimateMisses = 0
    /\ probeBudget = 0

(***************************************************************************)
(* Upstream: the BAYC subgraph and Etherscan's token transfer list         *)
(***************************************************************************)
\* The block in which the tokens were minted (April 2021)
MintBlock == ScenarioBlock - 2435493

\* The tokens the subgraph lists at block b
TokenSupply(b) == IF b >= MintBlock THEN Len(tokenOwners) ELSE 0

\* tokens(first: pageSize, where: {id_gt: lastId}, block: {number: b},
\*        orderBy: id, orderDirection: asc); the cursor "" is 0
TokensQuery(b, lastId, pageSize) ==
    [k \in 1..Max(0, Min(pageSize, TokenSupply(b) - lastId)) |->
        [id |-> lastId + k, owner |-> tokenOwners[lastId + k]]]

\* The requests to the subgraph in one call whose outcome is free
MaxGraphRequests == 2

\* What a request to the subgraph may do: answer, answer with errors, throw
GraphOutcomes == {"ok", "errors", "throw"}

\* The n-th request of a call under the outcomes g of its first requests
GraphOutcome(g, n) == IF n \in DOMAIN g THEN g[n] ELSE "ok"

\* tokennfttx sorted ascending: every token minted to its owner; the k-th
\* transfer of the list
TransferLog(k) ==
    [blockNumber |-> MintBlock, tokenID |-> k,
     from |-> ZeroAddress, to |-> tokenOwners[k]]

\* page: p, offset: 100
TransferPage(p) ==
    [i \in 1..Max(0, Min(100, Len(tokenOwners) - (p - 1) * 100)) |->
        TransferLog((p - 1) * 100 + i)]

(***************************************************************************)
(* getBAYCHoldersAtBlock, getHoldersFromTokenTransfers, saveHoldersCache    *)
(***************************************************************************)
\* FALLBACK_DEMO_DATA.sampleHolders: five addresses in mixed-case spelling
sampleHolders ==
    <<Checksummed(91), Checksummed(92), Checksummed(93), Checksummed(94),
      Checksummed(95)>>

\* updateOptimalGraphQLBatchSize: the new optimalGraphQLBatchSize
updateOptimalGraphQLBatchSize(optimal, success, currentSize) ==
    IF success
    THEN IF currentSize < optimal
         THEN Min(10000, (currentSize * 5) \div 4)
         ELSE optimal
    ELSE Max(500, (currentSize * 3) \div 4)

\* Set.prototype.add on a Set kept in insertion order
SetAdd(s, x) == IF \E i \in 1..Len(s) : s[i] = x THEN s ELSE Append(s, x)

\* tokens.forEach(t => holders.add(t.owner.id.toLowerCase())) from token k
\* on: the tokens whose owner is already in the set leave it as it is, so the
\* next token that changes it is added and the loop goes on behind it
RECURSIVE AddOwners(_, _, _)
AddOwners(hs, tokens, k) ==
    LET IsNew(i) == SetAdd(hs, toLowerCase(tokens[i].owner)) # hs
    IN  IF \A i \in k..Len(tokens) : ~IsNew(i) THEN hs
        ELSE LET i == CHOOSE i \in k..Len(tokens) :
                          IsNew(i) /\ \A j \in k..(i - 1) : ~IsNew(j)
             IN  AddOwners(SetAdd(hs, toLowerCase(tokens[i].owner)), tokens, i + 1)

\* The while (hasMoreTokens) loop after a full first page, from request n:
\* errors in an answer end the loop with what was collected so far
RECURSIVE FollowUpPages(_, _, _, _, _, _)
FollowUpPages(b, pageSize, hs, lastId, n, g) ==
    IF GraphOutcome(g, n) = "throw"
    THEN [thrown |-> TRUE, failed |-> TRUE, holders |-> << >>, next |-> n + 1]
    ELSE IF GraphOutcome(g, n) = "errors"
    THEN [thrown |-> FALSE, failed |-> TRUE, holders |-> hs, next |-> n + 1]
    ELSE LET more == TokensQuery(b, lastId, pageSize)
         IN  IF Len(more) = 0
             THEN [thrown |-> FALSE, failed |-> FALSE, holders |-> hs, next |-> n + 1]
             ELSE IF Len(more) < pageSize
             THEN [thrown |-> FALSE, failed |-> FALSE,
                   holders |-> AddOwners(hs, more, 1), next |-> n + 1]
             ELSE FollowUpPages(b, pageSize, AddOwners(hs, more, 1),
                                more[Len(more)].id, n + 1, g)

\* The try block: the first request at PAGE_SIZE and its follow-up requests
FirstAttempt(b, pageSize, g) ==
    IF GraphOutcome(g, 1) # "ok"
    THEN [thrown |-> TRUE, failed |-> TRUE, holders |-> << >>, next |-> 2]
    ELSE LET tokens == TokensQuery(b, 0, pageSize)
             hs == AddOwners(<< >>, tokens, 1)
         IN  IF Len(tokens) < pageSize
             THEN [thrown |-> FALSE, failed |-> FALSE, holders |-> hs, next |-> 2]
             ELSE FollowUpPages(b, pageSize, hs, tokens[Len(tokens)].id, 2, g)

\* The catch (largeQueryError) block: paging again from the first token at
\* FALLBACK_PAGE_SIZE; errors in an answer throw
RECURSIVE FallbackPages(_, _, _, _, _, _)
FallbackPages(b, pageSize, hs, lastId, n, g) ==
    IF GraphOutcome(g, n) # "ok" THEN [thrown |-> TRUE, holders |-> << >>]
    ELSE LET tokens == TokensQuery(b, lastId, pageSize)
         IN  IF Len(tokens) = 0 THEN [thrown |-> FALSE, holders |-> hs]
             ELSE IF Len(tokens) < pageSize
             THEN [thrown |-> FALSE, holders |-> AddOwners(hs, tokens, 1)]
             ELSE FallbackPages(b, pageSize, AddOwners(hs, tokens, 1),
                                tokens[Len(tokens)].id, n + 1, g)

\* Math.min(1000, Math.max(500, Math.floor(PAGE_SIZE / 2)))
FALLBACK_PAGE_SIZE(pageSize) == Min(1000, Max(500, pageSize \div 2))

\* The subgraph part of getBAYCHoldersAtBlock: the holder array, whether it
\* threw, the path taken and the page size suggested afterwards
QueryTheGraph(b, optimal, g) ==
    LET first == FirstAttempt(b, optimal, g)
        reduced == updateOptimalGraphQLBatchSize(optimal, FALSE, optimal)
        size == FALLBACK_PAGE_SIZE(optimal)
        second == FallbackPages(b, size, << >>, 0, first.next, g)
    IN  IF ~first.thrown
        THEN [thrown |-> FALSE, failed |-> first.failed,
              holders |-> first.holders, path |-> "graph",
              optimal |-> updateOptimalGraphQLBatchSize(optimal, TRUE, optimal)]
        ELSE IF ~second.thrown
        THEN [thrown |-> FALSE, failed |-> TRUE,
              holders |-> second.holders, path |-> "graphReduced",
              optimal |-> updateOptimalGraphQLBatchSize(reduced, TRUE, size)]
        ELSE [thrown |-> TRUE, failed |-> TRUE,
              holders |-> << >>, path |-> "graphReduced",
              optimal |-> reduced]

\* ownershipMap, a Map kept in insertion order: <<[owner, tokens], ...>>
MapHas(m, a) == \E i \in 1..Len(m) : m[i].owner = a

MapIndex(m, a) == CHOOSE i \in 1..Len(m) : m[i].owner = a

MapDelete(m, a) ==
    LET i == MapIndex(m, a)
    IN  SubSeq(m, 1, i - 1) \o SubSeq(m, i + 1, Len(m))

\* The body of the loop over the transfers of a page, for one transfer
ApplyTransfer(m, tr) ==
    LET from == toLowerCase(tr.from)
        to == toLowerCase(tr.to)
        taken ==
            IF from # ZeroAddress /\ MapHas(m, from)
            THEN LET i == MapIndex(m, from)
                     rest == m[i].tokens \ {tr.tokenID}
                 IN  IF rest = {} THEN MapDelete(m, from)
                     ELSE [m EXCEPT ![i].tokens = rest]
            ELSE m
        withTo == IF MapHas(taken, to) THEN taken
                  ELSE Append(taken, [owner |-> to, tokens |-> {}])
    IN  [withTo EXCEPT ![MapIndex(withTo, to)].tokens = @ \cup {tr.tokenID}]

\* The loop body for the transfers lo..hi of a page in their order, the
\* range taken in halves
RECURSIVE ApplyRange(_, _, _, _)
ApplyRange(m, transfers, lo, hi) ==
    IF lo > hi THEN m
    ELSE IF lo = hi THEN ApplyTransfer(m, transfers[lo])
    ELSE LET mid == (lo + hi) \div 2
             left == ApplyRange(m, transfers, lo, mid)
         \* (the test makes TLC build the left half's map before it goes on)
         IN  IF Len(left) >= 0 THEN ApplyRange(left, transfers, mid + 1, hi)
             ELSE left

\* for (const transfer of transfers): stops at the first transfer after the
\* target block, which also ends the paging
ApplyTransfers(m, transfers, k, target) ==
    LET late == {i \in k..Len(transfers) : transfers[i].blockNumber > target}
        stop == IF late = {} THEN Len(transfers) + 1
                ELSE CHOOSE i \in late : \A j \in late : i <= j
    IN  [map |-> ApplyRange(m, transfers, k, stop - 1), hasMoreData |-> late = {}]

\* while (hasMoreData && page <= 5)
RECURSIVE TransferPages(_, _, _)
TransferPages(m, page, target) ==
    LET transfers == TransferPage(page)
    IN  IF page > 5 \/ Len(transfers) = 0 THEN m
        ELSE LET r == ApplyTransfers(m, transfers, 1, target)
             IN  IF r.hasMoreData THEN TransferPages(r.map, page + 1, target)
                 ELSE r.map

\* What the tokennfttx request may do: answer with status '1', answer with
\* another status, throw
TransferOutcomes == {"ok", "status0", "throw"}

\* getHoldersFromTokenTransfers: the owners of the map other than the zero
\* address; the sample holders when the request throws
getHoldersFromTokenTransfers(b, outcome) ==
    IF outcome = "throw" THEN sampleHolders
    ELSE LET m == IF outcome = "ok" THEN TransferPages(<< >>, 1, b) ELSE << >>
             keys == [i \in 1..Len(m) |-> m[i].owner]
         IN  SelectSeq(keys, LAMBDA a : a # ZeroAddress)

\* saveHoldersCache: the snapshots of the 100 highest blocks and their
\* timestamps, written to the file and kept in memory
maxSnapshots == 100

\* Mutant: the snapshots of the 100 lowest blocks are kept
SaveHoldersCache_lowest(cache, timestamps) ==
    LET kept == {b \in DOMAIN cache :
                    Cardinality({c \in DOMAIN cache : c < b}) < maxSnapshots}
    IN  [snapshots |-> [b \in kept |-> cache[b]],
         timestamps |-> [b \in kept \cap DOMAIN timestamps |-> timestamps[b]]]

SaveHoldersCache(cache, timestamps) ==
    LET kept == {b \in DOMAIN cache :
                    Cardinality({c \in DOMAIN cache : c > b}) < maxSnapshots}
    IN  [snapshots |-> [b \in kept |-> cache[b]],
         timestamps |-> [b \in kept \cap DOMAIN timestamps |-> timestamps[b]]]

TIME_RADIUS == 3600

\* blocksByTimeDiff[0]: the indexed block nearest in time within TIME_RADIUS,
\* the lower block number first among equally near ones; 0 when there is none
BestTimeMatch(timestamps, blockTimestamp) ==
    LET near == {c \in DOMAIN timestamps :
                    Abs(timestamps[c] - blockTimestamp) < TIME_RADIUS}
    IN  IF near = {} THEN 0
        ELSE CHOOSE c \in near : \A d \in near :
                \/ Abs(timestamps[c] - blockTimestamp) < Abs(timestamps[d] - blockTimestamp)
                \/ /\ Abs(timestamps[c] - blockTimestamp) = Abs(timestamps[d] - blockTimestamp)
                   /\ c <= d

\* blocksBefore[0] and blocksAfter[0]; 0 when there is none
ClosestBefore(cache, b) ==
    LET before == {c \in DOMAIN cache : c < b}
    IN  IF before = {} THEN 0 ELSE CHOOSE c \in before : \A d \in before : d <= c

ClosestAfter(cache, b) ==
    LET after == {c \in DOMAIN cache : c > b}
    IN  IF after = {} THEN 0 ELSE CHOOSE c \in after : \A d \in after : c <= d

\* The answer of getBAYCHoldersAtBlock(b) that a cached snapshot gives once
\* the block's timestamp is known; path "none" when no snapshot is near
CachedNearby(b) ==
    LET best == BestTimeMatch(holdersTimestamps, BlockTimestamp(b))
        before == ClosestBefore(holdersCache, b)
        after == ClosestAfter(holdersCache, b)
    IN  IF best # 0 /\ best \in DOMAIN holdersCache
        THEN [path |-> "nearbyTime", from |-> best]
        ELSE IF before # 0 /\ b - before < 1000
        THEN [path |-> "nearbyBlock", from |-> before]
        ELSE IF after # 0 /\ after - b < 100
        THEN [path |-> "nearbyBlock", from |-> after]
        ELSE [path |-> "none", from |-> 0]

\* The snapshot is cached under b, with the block's timestamp when the node
\* gave it, and the cache is saved: saveHoldersCache writes the reduced
\* cache and then makes it the cache in memory, or catches and logs the
\* failed write
CacheHolders(b, hs, withTimestamp) ==
    LET cache == (b :> hs) @@ holdersCache
        timestamps == IF withTimestamp
                      THEN (b :> BlockTimestamp(b)) @@ holdersTimestamps
                      ELSE holdersTimestamps
        saved == SaveHoldersCache(cache, timestamps)
    IN  \E written \in FileOutcomes :
           IF written
           THEN /\ holdersCache' = saved.snapshots
                /\ holdersTimestamps' = saved.timestamps
                /\ holdersCacheFile' = saved
           ELSE /\ holdersCache' = cache
                /\ holdersTimestamps' = timestamps
                /\ UNCHANGED holdersCacheFile

\* getBAYCHoldersAtBlock(b).  probe, recheck: whether provider.getBlock(b)
\* gives the block at the start and in the catch block; g: the outcomes of
\* the requests to the subgraph; transfers: that of the tokennfttx request.
getBAYCHoldersAtBlock(b, probe, recheck, g, transfers) ==
    IF b \in DOMAIN holdersCache
    THEN /\ holders' = holdersCache[b]
         /\ holdersPath' = "exact"
         /\ fetchFailed' = FALSE
         /\ UNCHANGED <<holdersCache, holdersTimestamps, holdersCacheFile,
                        optimalGraphQLBatchSize>>
    ELSE IF probe /\ CachedNearby(b).path # "none"
    THEN /\ holders' = holdersCache[CachedNearby(b).from]
         /\ holdersPath' = CachedNearby(b).path
         /\ fetchFailed' = FALSE
         /\ UNCHANGED <<holdersCache, holdersTimestamps, holdersCacheFile,
                        optimalGraphQLBatchSize>>
    ELSE LET q == QueryTheGraph(b, optimalGraphQLBatchSize, g)
         IN  IF probe /\ ~q.thrown
             THEN /\ holders' = q.holders
                  /\ holdersPath' = q.path
                  /\ fetchFailed' = q.failed
                  /\ optimalGraphQLBatchSize' = q.optimal
                  /\ CacheHolders(b, q.holders, TRUE)
             ELSE LET hs == getHoldersFromTokenTransfers(b, transfers)
                  IN  /\ holders' = hs
                      /\ holdersPath' = IF transfers = "throw" THEN "sample"
                                        ELSE "transfers"
                      /\ fetchFailed' = (probe /\ q.failed)
                      /\ optimalGraphQLBatchSize' =
                            IF probe THEN q.optimal ELSE optimalGraphQLBatchSize
                      /\ CacheHolders(b, hs, recheck)

MaxRequests == 2

NoResponse == [status |-> 0, body |-> << >>]

NoRequest ==
    [implementation |-> "none", method |-> "none", timestamp |-> 0,
     useCache |-> "undefined"]

(***************************************************************************)
(* The result store: data/results.json                                     *)
(***************************************************************************)
\* previousResults?.[implementationId]?.[timestamp.toString()] is truthy
HasResult(implementationId, t) == <<implementationId, t>> \in DOMAIN resultsFile

\* getPreviousResults()[implementationId][timestamp.toString()]
getPreviousResults(implementationId, t) == resultsFile[<<implementationId, t>>]

\* saveResultsToFile of get-saved-results.ts: the record written for a
\* DetailedHolderResult at time now, the total as its decimal string
ResultToSave(implementationId, r, now) ==
    [timestamp |-> now,
     totalWei |-> bnToString(r.totalWei),
     block |-> r.blockNumber,
     sampledHolders |-> r.holderCount] @@ r

\* Mutant: a record already stored under the key is kept
saveResultsToFile_keepsFirst(implementationId, t, r, now) ==
    resultsFile @@ (<<implementationId, t>> :> ResultToSave(implementationId, r, now))

saveResultsToFile(implementationId, t, r, now) ==
    (<<implementationId, t>> :> ResultToSave(implementationId, r, now)) @@ resultsFile

\* saveResultsToFile of graph.ts
graphSaveResultsToFile(t, r, now) ==
    (<<"graph", t>> :> ([timestamp |-> now] @@ r)) @@ resultsFile

(***************************************************************************)
(* get-saved-results.ts: handler and getTotalEthValueOfHolders             *)
(***************************************************************************)
\* Mutant: the handler never looks for a stored result
UsesCache_never(useCache) == FALSE

\* useCache !== false
UsesCache(useCache) == useCache # "false"

\* Mutant: the catch block persists the error result
catchPersists_always == TRUE

\* The catch block of getTotalEthValueOfHolders returns the error result
\* without calling saveResultsToFile
catchPersists == FALSE

ZeroMetrics ==
    [blockResolutionTime |-> 0, holdersResolutionTime |-> 0,
     balanceResolutionTime |-> 0, totalTime |-> 0]

\* The object the catch block returns
ErrorResult(message, m, now) ==
    [error |-> message,
     blockNumber |-> 0,
     holderCount |-> 0,
     totalWei |-> bnZero,
     totalEth |-> <<"0">>,
     executionTime |-> now - startTime,
     metrics |-> [m EXCEPT !.totalTime = now - startTime],
     method |-> "Error in pipeline execution",
     implementation |-> "optimizedSolution"]

\* The object returned for a stored result: the record with its total as a
\* BigNumber again, marked fromCache
CachedResult(rec) ==
    [fromCache |-> TRUE, totalWei |-> bnFromString(rec.totalWei)] @@ rec

Respond(status, body) == response' = [status |-> status, body |-> body]

idleAggregation == UNCHANGED <<aggVars, chainVars, thrownCalls>>

\* handler: 405 for another method than POST, 400 without a timestamp
handlerRejects(method, t) ==
    /\ plPc = "idle" /\ requests < MaxRequests
    /\ method # "POST" \/ t = 0
    /\ IF method # "POST"
       THEN Respond(405, [error |-> "Method not allowed"])
       ELSE Respond(400, [error |-> "Timestamp is required"])
    /\ requests' = requests + 1
    /\ lastRequest' = [implementation |-> "optimizedSolution", method |-> method,
                       timestamp |-> t, useCache |-> "undefined"]
    /\ trace' = << >>
    /\ clock' = 0
    /\ UNCHANGED <<resultsFile, plPc, plBlock, metrics, startTime, stageStart>>
    /\ UNCHANGED <<rsVars, holderVars, tokenOwners>>
    /\ idleAggregation

\* handler: a stored result is served, marked fromCache
handlerServesCached(t, useCache) ==
    /\ plPc = "idle" /\ requests < MaxRequests
    /\ t # 0 /\ UsesCache(useCache) /\ HasResult("optimizedSolution", t)
    /\ Respond(200, [fromCache |-> TRUE] @@ getPreviousResults("optimizedSolution", t))
    /\ requests' = requests + 1
    /\ lastRequest' = [implementation |-> "optimizedSolution", method |-> "POST",
                       timestamp |-> t, useCache |-> useCache]
    /\ trace' = << >>
    /\ clock' = 0
    /\ UNCHANGED <<resultsFile, plPc, plBlock, metrics, startTime, stageStart>>
    /\ UNCHANGED <<rsVars, holderVars, tokenOwners>>
    /\ idleAggregation

\* handler finds no stored result, because it does not look for one or
\* because getPreviousResults catches a failed read and answers {}; it calls
\* getTotalEthValueOfHolders, whose own look at the stored results finds
\* one: it is returned, marked fromCache
computeServesCached(t, useCache) ==
    /\ plPc = "idle" /\ requests < MaxRequests
    /\ t # 0 /\ HasResult("optimizedSolution", t)
    /\ \E readable \in FileOutcomes : ~(UsesCache(useCache) /\ readable)
    /\ Respond(200, CachedResult(getPreviousResults("optimizedSolution", t)))
    /\ requests' = requests + 1
    /\ lastRequest' = [implementation |-> "optimizedSolution", method |-> "POST",
                       timestamp |-> t, useCache |-> useCache]
    /\ trace' = <<"CHECK_CACHE", "DONE">>
    /\ clock' = 0
    /\ startTime' = 0
    /\ metrics' = ZeroMetrics
    /\ UNCHANGED <<resultsFile, plPc, plBlock, stageStart>>
    /\ UNCHANGED <<rsVars, holderVars, tokenOwners>>
    /\ idleAggregation

\* handler calls getTotalEthValueOfHolders, which finds no stored result,
\* there being none or getPreviousResults answering {} for a failed read,
\* and calls getBlockNumberAtTimestamp (Step 1)
computeStarts(t, useCache) ==
    /\ plPc = "idle" /\ requests < MaxRequests
    /\ t # 0
    /\ \E readable \in FileOutcomes : ~(readable /\ HasResult("optimizedSolution", t))
    /\ response' = NoResponse
    /\ requests' = requests + 1
    /\ lastRequest' = [implementation |-> "optimizedSolution", method |-> "POST",
                       timestamp |-> t, useCache |-> useCache]
    /\ trace' = <<"CHECK_CACHE", "RESOLVE_BLOCK">>
    /\ clock' = 0
    /\ startTime' = 0
    /\ stageStart' = 0
    /\ metrics' = ZeroMetrics
    /\ plBlock' = 0
    /\ plPc' = "resolve"
    /\ getBlockNumberAtTimestamp(t)
    /\ UNCHANGED <<resultsFile, probeBudget>>
    /\ UNCHANGED <<holderVars, tokenOwners>>
    /\ idleAggregation

\* The catch block: the error result is returned and handler answers with it
catchBlock(message, m, now) ==
    /\ Respond(200, ErrorResult(message, m, now))
    /\ resultsFile' =
          IF catchPersists
          THEN saveResultsToFile("optimizedSolution", lastRequest.timestamp,
                                 ErrorResult(message, m, now), now)
          ELSE resultsFile
    /\ trace' = trace \o (IF catchPersists THEN <<"PERSIST">> ELSE << >>) \o <<"ERROR">>
    /\ metrics' = [m EXCEPT !.totalTime = now - startTime]
    /\ clock' = now
    /\ plPc' = "idle"

\* The locals of the binarySearchBlock call that has returned are gone
searchLocalsGone ==
    /\ low' = 0 /\ high' = 0 /\ result' = 0
    /\ iterations' = 0 /\ lastMid' = 0 /\ consecutiveErrors' = 0
    /\ UNCHANGED <<blockNumberCache, blockCacheFile, rsPc, rsT, rsEst, rsResult,
                   tried, failedSources, resolved, origin, probeFailures, probeBudget,
                   estimateMisses, resolveCalls>>

\* getBlockNumberAtTimestamp returned: Step 2 starts
resolveReturns ==
    /\ plPc = "resolve" /\ rsPc = "returned"
    /\ plBlock' = rsResult
    /\ clock' = clock + 1
    /\ metrics' = [metrics EXCEPT !.blockResolutionTime = clock + 1 - stageStart]
    /\ stageStart' = clock + 1
    /\ trace' = Append(trace, "BUILD_HOLDERS")
    /\ plPc' = "holders"
    /\ UNCHANGED <<resultsFile, startTime, response, requests, lastRequest>>
    /\ searchLocalsGone
    /\ UNCHANGED <<holderVars, tokenOwners>>
    /\ idleAggregation

\* getBlockNumberAtTimestamp threw: 'Block resolution failed: ...'
resolveThrows ==
    /\ plPc = "resolve" /\ rsPc = "error"
    /\ catchBlock("Block resolution failed", metrics, clock + 1)
    /\ UNCHANGED <<plBlock, startTime, stageStart, requests, lastRequest>>
    /\ searchLocalsGone
    /\ UNCHANGED <<holderVars, tokenOwners>>
    /\ idleAggregation

\* Step 2, getBAYCHoldersAtBlock(blockNumber), and what follows it: without
\* holders the error 'No holders found', otherwise getEthBalancesgraph is
\* called with the holders and the block (Step 3)
holdersStage(probe, recheck, g, transfers) ==
    /\ plPc = "holders"
    /\ getBAYCHoldersAtBlock(plBlock, probe, recheck, g, transfers)
    /\ holdersBlock' = plBlock
    /\ LET m == [metrics EXCEPT !.holdersResolutionTime = clock + 1 - stageStart]
       IN  IF Len(holders') = 0
           THEN /\ catchBlock("No holders found - cannot proceed with balance retrieval",
                              m, clock + 1)
                /\ UNCHANGED <<stageStart>>
                /\ idleAggregation
           ELSE /\ metrics' = m
                /\ clock' = clock + 1
                /\ stageStart' = clock + 1
                /\ trace' = Append(trace, "AGGREGATE_BALANCE")
                /\ plPc' = "aggregate"
                /\ addresses' = holders'
                /\ blockNumber' = plBlock
                /\ aggPc' = "start"
                /\ UNCHANGED <<balances, batchStart, chunkState, fbBalances, fbNext,
                               aggResult, chainVars, thrownCalls>>
                /\ UNCHANGED <<resultsFile, response>>
    /\ UNCHANGED <<plBlock, startTime, requests, lastRequest>>
    /\ UNCHANGED <<rsVars, tokenOwners>>

\* Mutant: a failed save of the result is raised to the caller
saveRethrows_always == TRUE

\* The catch block of saveResultsToFile logs the error and returns
saveRethrows == FALSE

\* getEthBalancesgraph returned: Step 4, the result is saved, unless reading
\* or writing data/results.json throws, and returned
aggregationReturns ==
    /\ plPc = "aggregate" /\ aggPc = "returned"
    /\ LET now == clock + 1
           totalWei == sumBalances(aggResult)
           m == [metrics EXCEPT !.balanceResolutionTime = now - stageStart,
                                !.totalTime = now - startTime]
           r == [blockNumber |-> plBlock,
                 holderCount |-> Len(holders),
                 totalWei |-> totalWei,
                 totalEth |-> formatEther(totalWei),
                 executionTime |-> now - startTime,
                 metrics |-> m,
                 method |-> "Optimized pipeline with enhanced caching",
                 implementation |-> "optimizedSolution"]
       IN  \E saved \in FileOutcomes :
              IF ~saved /\ saveRethrows
              THEN catchBlock("Error saving results to file", m, now)
              ELSE /\ resultsFile' =
                         IF saved
                         THEN saveResultsToFile("optimizedSolution",
                                                lastRequest.timestamp, r, now)
                         ELSE resultsFile
                   /\ Respond(200, r)
                   /\ metrics' = m
                   /\ clock' = now
                   /\ trace' = trace \o <<"PERSIST", "DONE">>
                   /\ plPc' = "idle"
    /\ aggPc' = "idle"
    /\ balances' = << >> /\ batchStart' = 0 /\ chunkState' = << >>
    /\ fbBalances' = << >> /\ fbNext' = 0 /\ aggResult' = << >>
    /\ UNCHANGED <<addresses, blockNumber, chainVars, thrownCalls>>
    /\ UNCHANGED <<plBlock, startTime, stageStart, requests, lastRequest>>
    /\ UNCHANGED <<rsVars, holderVars, tokenOwners>>

(***************************************************************************)
(* implementations/graph.ts and implementations/graph.js                   *)
(***************************************************************************)
\* The binary search of graph.ts and graph.js, every probe answered
RECURSIVE graphBinarySearch(_, _, _, _)
graphBinarySearch(t, lo, hi, res) ==
    IF lo > hi THEN res
    ELSE LET mid == (lo + hi) \div 2
         IN  IF BlockTimestamp(mid) < t
             THEN graphBinarySearch(t, mid + 1, hi, res)
             ELSE graphBinarySearch(t, lo, mid - 1, mid)

\* Which source answers their getBlockNumberAtTimestamp: the node, else
\* Etherscan, else the table, else none
GraphSources == {"node", "index", "table", "none"}

\* Whether getBlockNumberAtTimestamp throws when src is the last source left
graphResolveThrows(t, src) ==
    src = "none" \/ (src = "table" /\ ~hasFallbackData(t))

graphGetBlockNumberAtTimestamp(t, src) ==
    CASE src = "node" -> graphBinarySearch(t, 0, LatestBlock, LatestBlock)
      [] src = "index" -> BlockBefore(t)
      [] OTHER -> getFallbackBlockNumber(t)

\* The owners the subgraph lists at block b, in lowercase, in the order of
\* their first token
GraphOwners(b) == AddOwners(<< >>, TokensQuery(b, 0, TokenSupply(b)), 1)

\* getBAYCHoldersAtBlock of graph.ts: the owners other than the zero address,
\* or the sample holders when the subgraph and the log query fail
GraphHolderOutcomes == {"graph", "sample"}

graphGetBAYCHoldersAtBlock(b, outcome) ==
    IF outcome = "graph"
    THEN SelectSeq(GraphOwners(b), LAMBDA a : a # ZeroAddress)
    ELSE sampleHolders

\* getFallbackBalances of graph.ts: parseEther("500000")
graphGetFallbackBalances == parseEther(500000)

\* getEthBalancesMulticall of graph.ts, every batch answered
graphGetEthBalancesMulticall(hs, b) ==
    sumBalances([i \in 1..Len(hs) |-> getEthBalance(hs[i], b)])

\* handler of graph.ts
graphHandler(t, useCache, src, outcome) ==
    /\ plPc = "idle" /\ requests < MaxRequests
    /\ t # 0
    /\ requests' = requests + 1
    /\ lastRequest' = [implementation |-> "graph", method |-> "POST",
                       timestamp |-> t, useCache |-> useCache]
    /\ trace' = << >>
    /\ IF UsesCache(useCache) /\ HasResult("graph", t)
       THEN /\ Respond(200, [fromCache |-> TRUE] @@ getPreviousResults("graph", t))
            /\ clock' = 0
            /\ UNCHANGED resultsFile
       ELSE IF graphResolveThrows(t, src)
       THEN /\ Respond(500, [error |-> "Error in binary search for block"])
            /\ clock' = 1
            /\ UNCHANGED resultsFile
       ELSE LET b == graphGetBlockNumberAtTimestamp(t, src)
                hs == graphGetBAYCHoldersAtBlock(b, outcome)
                totalWei == IF hasFallbackData(t) THEN graphGetFallbackBalances
                            ELSE graphGetEthBalancesMulticall(hs, b)
                r == [totalEth |-> formatEther(totalWei),
                      holderCount |-> Len(hs),
                      sampledHolders |-> Len(hs),
                      executionTime |-> 1,
                      block |-> b,
                      implementation |-> "graph"]
            IN  /\ resultsFile' = graphSaveResultsToFile(t, r, 1)
                /\ Respond(200, r)
                /\ clock' = 1
    /\ UNCHANGED <<plPc, plBlock, metrics, startTime, stageStart>>
    /\ UNCHANGED <<rsVars, holderVars, tokenOwners>>
    /\ idleAggregation

\* handler of graph.js: getTotalEthValueOfHolders answers with demo values
\* when a stage throws, and handler sends what it returns with status 200
graphJsHandler(t, src, outcome) ==
    /\ plPc = "idle" /\ requests < MaxRequests
    /\ t # 0
    /\ requests' = requests + 1
    /\ lastRequest' = [implementation |-> "graph.js", method |-> "POST",
                       timestamp |-> t, useCache |-> "undefined"]
    /\ trace' = << >>
    /\ IF graphResolveThrows(t, src)
       THEN Respond(200, [totalEth |-> <<"6", "9", ".", "4", "2", "0">>,
                          holderCount |-> 6000,
                          sampledHolders |-> 5,
                          executionTime |-> 0,
                          block |-> getFallbackBlockNumber(t),
                          cached |-> FALSE,
                          implementation |-> "graph-fallback"])
       ELSE LET b == graphGetBlockNumberAtTimestamp(t, src)
                hs == IF outcome = "graph" THEN GraphOwners(b) ELSE sampleHolders
            IN  Respond(200, [totalEth |-> formatEther(graphGetEthBalancesMulticall(hs, b)),
                              holderCount |-> Len(hs),
                              sampledHolders |-> Len(hs),
                              executionTime |-> 1,
                              block |-> b,
                              implementation |-> "graph"])
    /\ clock' = 1
    /\ UNCHANGED <<resultsFile, plPc, plBlock, metrics, startTime, stageStart>>
    /\ UNCHANGED <<rsVars, holderVars, tokenOwners>>
    /\ idleAggregation

InitHoldersIdle ==
    /\ holdersCache = << >> /\ holdersTimestamps = << >>
    /\ holdersCacheFile = [snapshots |-> << >>, timestamps |-> << >>]
    /\ optimalGraphQLBatchSize = 10000
    /\ holders = << >> /\ holdersPath = "none" /\ holdersBlock = 0
    /\ fetchFailed = FALSE
    /\ tokenOwners = << >>

InitPipelineIdle ==
    /\ resultsFile = << >> /\ plPc = "off" /\ plBlock = 0
    /\ metrics = ZeroMetrics /\ startTime = 0 /\ stageStart = 0 /\ clock = 0
    /\ trace = << >> /\ response = NoResponse /\ lastRequest = NoRequest
    /\ requests = 0

(***************************************************************************)
(* SpecAgg: getEthBalancesgraph on address lists of up to four chunks      *)
(***************************************************************************)
MaxChunkCount == 3

\* At most MaxCallFailures aggregate3 calls throw in one run
MaxCallFailures == 4

\* List lengths from 0 to one address more than MaxChunkCount full chunks
AggLengths == 0..(MaxChunkCount * chunkSize + 1)

\* The synthetic balances: a wei, 2^53 + a wei, a ether
SyntheticBalance(mode, a) ==
    CASE mode = 1 -> bnFromInt(a)
      [] mode = 2 -> bnAdd(<<254740992, 9007199>>, bnFromInt(a))
      [] OTHER    -> parseEther(a)

AggBlock == 14723000

InitAgg ==
    /\ \E n \in AggLengths, up \in BOOLEAN :
          addresses = [i \in 1..n |-> IF up THEN i ELSE n + 1 - i]
    /\ \E mode \in 1..3 :
          ethBalance = [a \in 1..Len(addresses) |-> SyntheticBalance(mode, a)]
    /\ blockNumber = AggBlock
    /\ fundingBlock \in {AggBlock, AggBlock + 1}
    /\ failedEntries \in {{}, {1}}
    /\ failedQueries \in {{}, {Len(addresses)}}
    /\ thrownCalls = 0
    /\ callFailureBudget = MaxCallFailures
    /\ fsFaulty = FALSE
    /\ runs = << >>
    /\ balances = << >>
    /\ batchStart = 0
    /\ chunkState = << >>
    /\ aggPc = "start"
    /\ fbBalances = << >>
    /\ fbNext = 0
    /\ aggResult = << >>
    /\ InitResolver
    /\ InitHoldersIdle
    /\ InitPipelineIdle

aggregatingOnly == UNCHANGED <<rsVars, holderVars, tokenOwners, plVars>>

NextAgg ==
    \/ EnterAggregation /\ aggregatingOnly
    \/ \E c \in DOMAIN chunkState : Aggregate3Returns(c) /\ aggregatingOnly
    \/ \E c \in DOMAIN chunkState : Aggregate3Throws(c) /\ aggregatingOnly
    \/ \E c \in DOMAIN chunkState : BackoffElapsed(c) /\ aggregatingOnly
    \/ BatchResolved /\ aggregatingOnly
    \/ BatchRejected /\ aggregatingOnly
    \/ FallbackRound /\ aggregatingOnly

SpecAgg == InitAgg /\ [][NextAgg]_vars

(***************************************************************************)
(* SpecWindow: getEthBalancesgraph on lists long enough for several        *)
(* batches of chunks and several rounds of the fallback                    *)
(***************************************************************************)
\* The list lengths: one more than fallbackConcurrencyLimit batches, with
\* and without a full last batch
WindowLengths ==
    {fallbackConcurrencyLimit * batchSize + 1,
     (fallbackConcurrencyLimit + 1) * batchSize}

InitWindow ==
    /\ \E n \in WindowLengths : addresses = [i \in 1..n |-> i]
    /\ ethBalance = [a \in 1..Len(addresses) |-> parseEther(a)]
    /\ blockNumber = AggBlock
    /\ fundingBlock = AggBlock
    /\ failedEntries = {}
    /\ failedQueries \in {{}, {Len(addresses)}}
    /\ thrownCalls = 0
    /\ callFailureBudget = MaxCallFailures
    /\ fsFaulty = FALSE
    /\ runs = << >>
    /\ balances = << >>
    /\ batchStart = 0
    /\ chunkState = << >>
    /\ aggPc = "start"
    /\ fbBalances = << >>
    /\ fbNext = 0
    /\ aggResult = << >>
    /\ InitResolver
    /\ InitHoldersIdle
    /\ InitPipelineIdle

SpecWindow == InitWindow /\ [][NextAgg]_vars

(***************************************************************************)
(* SpecResolve: a sequence of getBlockNumberAtTimestamp calls              *)
(***************************************************************************)
\* The requested timestamps: by how many seconds they follow ScenarioTime
ResolveOffsets == {0, 5, 31, 100000}

ResolveTimes == {ScenarioTime + d : d \in ResolveOffsets}

InitAggIdle ==
    /\ addresses = << >> /\ blockNumber = 0 /\ balances = << >>
    /\ batchStart = 0 /\ chunkState = << >> /\ aggPc = "idle"
    /\ fbBalances = << >> /\ fbNext = 0 /\ aggResult = << >>
    /\ ethBalance = << >> /\ fundingBlock = 0
    /\ failedEntries = {} /\ failedQueries = {} /\ thrownCalls = 0
    /\ callFailureBudget = 0
    /\ fsFaulty = FALSE
    /\ runs = << >>

MaxResolveCalls == 3
MaxProbeFailures == 1

ResolveCall ==
    /\ resolveCalls < MaxResolveCalls
    /\ \E t \in ResolveTimes : getBlockNumberAtTimestamp(t)
    /\ UNCHANGED <<aggVars, chainVars, thrownCalls, holderVars, tokenOwners, plVars>>

resolvingOnly ==
    UNCHANGED <<resolveCalls, probeBudget, aggVars, chainVars, thrownCalls,
                holderVars, tokenOwners, plVars>>

NextResolve ==
    \/ ResolveCall
    \/ EtherscanFails /\ resolvingOnly
    \/ \E err \in EstimateErrors : EtherscanAnswers(err) /\ resolvingOnly
    \/ \E outcome \in {"ok", "null", "throw"} : VerifyAnswers(outcome) /\ resolvingOnly
    \/ LatestAnswers /\ resolvingOnly
    \/ LatestThrows /\ resolvingOnly
    \/ \E outcome \in {"ok", "null", "throw"} : SearchProbe(outcome) /\ resolvingOnly
    \/ SearchExit /\ resolvingOnly

InitResolve ==
    /\ InitAggIdle
    /\ blockNumberCache = << >> /\ blockCacheFile = << >>
    /\ rsPc = "idle" /\ rsT = 0 /\ rsEst = 0
    /\ low = 0 /\ high = 0 /\ result = 0
    /\ iterations = 0 /\ lastMid = 0 /\ consecutiveErrors = 0
    /\ rsResult = 0 /\ tried = << >> /\ failedSources = {}
    /\ resolved = << >> /\ origin = << >> /\ probeFailures = 0 /\ resolveCalls = 0
    /\ estimateMisses = 0
    /\ probeBudget = MaxProbeFailures
    /\ InitHoldersIdle
    /\ InitPipelineIdle

SpecResolve == InitResolve /\ [][NextResolve]_vars

\* The same calls when every request is answered in the end and the code
\* that follows an answer runs
SpecResolveFair == SpecResolve /\ WF_vars(NextResolve)

(***************************************************************************)
(* SpecHolders: a sequence of getBAYCHoldersAtBlock calls                  *)
(***************************************************************************)
\* The blocks asked for: one, and one 50 blocks (11 minutes) later
HolderBlocks == {ScenarioBlock, ScenarioBlock + 50}

\* The tokens of the long ledger: enough to fill a page above the smallest
\* page size
MaxTokens == 625

\* What the subgraph lists: a short ledger with a mixed-case owner id and a
\* burnt token, and a long one whose every fourth token is burnt and whose
\* last token has an owner of its own
HolderLedgers ==
    {<<1, 2, Checksummed(3), ZeroAddress, 2>>,
     [k \in 1..MaxTokens |-> IF k = MaxTokens THEN 5 ELSE k % 4]}

\* The snapshots of maxSnapshots blocks far above the blocks asked for
FullCache == [b \in (ScenarioBlock + 100001)..(ScenarioBlock + 100000 + maxSnapshots) |-> <<1>>]

\* data/holders-cache.json as loadHoldersCache finds it: absent, or holding
\* maxSnapshots snapshots with their timestamps
InitHolders ==
    /\ \E cache \in {<< >>, FullCache} :
          /\ holdersCache = cache
          /\ holdersTimestamps = [b \in DOMAIN cache |-> BlockTimestamp(b)]
          /\ holdersCacheFile =
                [snapshots |-> cache,
                 timestamps |-> [b \in DOMAIN cache |-> BlockTimestamp(b)]]
    /\ optimalGraphQLBatchSize = 10000
    /\ holders = << >> /\ holdersPath = "none" /\ holdersBlock = 0
    /\ fetchFailed = FALSE
    /\ tokenOwners \in HolderLedgers
    /\ InitAggIdle
    /\ InitResolver
    /\ probeBudget = 0
    /\ InitPipelineIdle

\* A call getBAYCHoldersAtBlock(b) from start to return
HoldersCall(b, probe, recheck, g, transfers) ==
    /\ getBAYCHoldersAtBlock(b, probe, recheck, g, transfers)
    /\ holdersBlock' = b
    /\ UNCHANGED <<aggVars, chainVars, thrownCalls, rsVars, tokenOwners, plVars>>

\* Every request of a call to the subgraph is answered
AllAnswered == [n \in 1..MaxGraphRequests |-> "ok"]

\* The call finds a snapshot for the block itself
HoldersCachedCall(b) ==
    /\ b \in DOMAIN holdersCache
    /\ HoldersCall(b, TRUE, TRUE, AllAnswered, "ok")

\* The call finds the snapshot of a block near in time or in number
HoldersNearbyCall(b) ==
    /\ b \notin DOMAIN holdersCache /\ CachedNearby(b).path # "none"
    /\ HoldersCall(b, TRUE, TRUE, AllAnswered, "ok")

\* The call gets its holders from the subgraph under the outcomes g
HoldersGraphCall(b, g) ==
    /\ b \notin DOMAIN holdersCache /\ CachedNearby(b).path = "none"
    /\ ~QueryTheGraph(b, optimalGraphQLBatchSize, g).thrown
    /\ HoldersCall(b, TRUE, TRUE, g, "ok")

\* The node does not give the block: the catch block runs
HoldersProbeFails(b, recheck, transfers) ==
    /\ b \notin DOMAIN holdersCache
    /\ HoldersCall(b, FALSE, recheck, AllAnswered, transfers)

\* The subgraph fails at both page sizes under the outcomes g: the catch
\* block runs
HoldersGraphFails(b, g) ==
    /\ b \notin DOMAIN holdersCache /\ CachedNearby(b).path = "none"
    /\ QueryTheGraph(b, optimalGraphQLBatchSize, g).thrown
    /\ \E recheck \in BOOLEAN, transfers \in TransferOutcomes :
          HoldersCall(b, TRUE, recheck, g, transfers)

NextHolders ==
    \/ \E b \in HolderBlocks : HoldersCachedCall(b)
    \/ \E b \in HolderBlocks : HoldersNearbyCall(b)
    \/ \E b \in HolderBlocks, g \in [1..MaxGraphRequests -> GraphOutcomes] :
          HoldersGraphCall(b, g)
    \/ \E b \in HolderBlocks, recheck \in BOOLEAN, transfers \in TransferOutcomes :
          HoldersProbeFails(b, recheck, transfers)
    \/ \E b \in HolderBlocks, g \in [1..MaxGraphRequests -> GraphOutcomes] :
          HoldersGraphFails(b, g)

SpecHolders == InitHolders /\ [][NextHolders]_vars

(***************************************************************************)
(* SpecReuse: getBAYCHoldersAtBlock calls for blocks minutes and hours      *)
(* apart                                                                   *)
(***************************************************************************)
\* Blocks 50 and 500 blocks, 650 s and 6500 s, after ScenarioBlock
ReuseBlocks == {ScenarioBlock, ScenarioBlock + 50, ScenarioBlock + 500}

InitReuse ==
    /\ holdersCache = << >> /\ holdersTimestamps = << >>
    /\ holdersCacheFile = [snapshots |-> << >>, timestamps |-> << >>]
    /\ optimalGraphQLBatchSize = 10000
    /\ holders = << >> /\ holdersPath = "none" /\ holdersBlock = 0
    /\ fetchFailed = FALSE
    /\ tokenOwners = <<1, 2, Checksummed(3), ZeroAddress, 2>>
    /\ InitAggIdle
    /\ InitResolver
    /\ InitPipelineIdle

NextReuse ==
    \/ \E b \in ReuseBlocks : HoldersCachedCall(b)
    \/ \E b \in ReuseBlocks : HoldersNearbyCall(b)
    \/ \E b \in ReuseBlocks, g \in [1..MaxGraphRequests -> GraphOutcomes] :
          HoldersGraphCall(b, g)
    \/ \E b \in ReuseBlocks, recheck \in BOOLEAN, transfers \in TransferOutcomes :
          HoldersProbeFails(b, recheck, transfers)
    \/ \E b \in ReuseBlocks, g \in [1..MaxGraphRequests -> GraphOutcomes] :
          HoldersGraphFails(b, g)

SpecReuse == InitReuse /\ [][NextReuse]_vars

(***************************************************************************)
(* Spec: requests to the API handlers                                      *)
(***************************************************************************)
\* The timestamps requested: May 1, 2022, which the table has, and a time
\* more than a day later, which it has not; 0 stands for a missing timestamp
RequestTimes == {ScenarioTime, ScenarioTime + 100000}

MaxRetriedCalls == 1

\* What the subgraph lists: no token, or seven tokens of five owners, one of
\* the owners also in mixed-case spelling
TokenScenarios ==
    {<< >>, <<1, 2, 3, 4, 5, Checksummed(1), 2>>}

KnownAddresses == (1..5) \cup {toLowerCase(sampleHolders[i]) : i \in 1..Len(sampleHolders)}

Init ==
    /\ addresses = << >> /\ blockNumber = 0 /\ balances = << >>
    /\ batchStart = 0 /\ chunkState = << >> /\ aggPc = "idle"
    /\ fbBalances = << >> /\ fbNext = 0 /\ aggResult = << >>
    /\ ethBalance = [a \in KnownAddresses |-> parseEther(a)]
    /\ fundingBlock = MintBlock
    /\ failedEntries = {}
    /\ failedQueries = {}
    /\ thrownCalls = 0
    /\ callFailureBudget = MaxRetriedCalls
    /\ fsFaulty = FALSE
    /\ runs = << >>
    /\ blockNumberCache = << >> /\ blockCacheFile = << >>
    /\ rsPc = "idle" /\ rsT = 0 /\ rsEst = 0
    /\ low = 0 /\ high = 0 /\ result = 0
    /\ iterations = 0 /\ lastMid = 0 /\ consecutiveErrors = 0
    /\ rsResult = 0 /\ tried = << >> /\ failedSources = {}
    /\ resolved = << >> /\ origin = << >> /\ probeFailures = 0 /\ resolveCalls = 0
    /\ estimateMisses = 0
    /\ probeBudget = 0
    /\ holdersCache = << >> /\ holdersTimestamps = << >>
    /\ holdersCacheFile = [snapshots |-> << >>, timestamps |-> << >>]
    /\ optimalGraphQLBatchSize = 10000
    /\ holders = << >> /\ holdersPath = "none" /\ holdersBlock = 0
    /\ fetchFailed = FALSE
    /\ tokenOwners \in TokenScenarios
    /\ resultsFile = << >> /\ plPc = "idle" /\ plBlock = 0
    /\ metrics = ZeroMetrics /\ startTime = 0 /\ stageStart = 0 /\ clock = 0
    /\ trace = << >> /\ response = NoResponse /\ lastRequest = NoRequest
    /\ requests = 0

\* In Spec no block probe fails and at most MaxRetriedCalls aggregate3 calls
\* throw, fewer than a chunk needs to give up: getEthBalancesgraph does not
\* reach its catch block (SpecAgg covers it)
UseCacheValues == {"true", "false", "undefined"}

\* A step of getBlockNumberAtTimestamp while Step 1 awaits it
resolving ==
    /\ plPc = "resolve"
    /\ UNCHANGED <<resolveCalls, probeBudget, aggVars, chainVars, thrownCalls,
                   holderVars, tokenOwners, plVars>>

\* A step of getEthBalancesgraph while Step 3 awaits it
aggregating ==
    /\ plPc = "aggregate"
    /\ UNCHANGED <<rsVars, holderVars, tokenOwners, plVars>>

Next ==
    \/ \E method \in {"POST", "GET"}, t \in RequestTimes \cup {0} :
          handlerRejects(method, t)
    \/ \E t \in RequestTimes, useCache \in UseCacheValues :
          handlerServesCached(t, useCache)
    \/ \E t \in RequestTimes, useCache \in UseCacheValues :
          computeServesCached(t, useCache)
    \/ \E t \in RequestTimes, useCache \in UseCacheValues :
          computeStarts(t, useCache)
    \/ EtherscanFails /\ resolving
    \/ \E err \in EstimateErrors : EtherscanAnswers(err) /\ resolving
    \/ \E outcome \in {"ok", "null", "throw"} : VerifyAnswers(outcome) /\ resolving
    \/ LatestAnswers /\ resolving
    \/ LatestThrows /\ resolving
    \/ \E outcome \in {"ok", "null", "throw"} : SearchProbe(outcome) /\ resolving
    \/ SearchExit /\ resolving
    \/ resolveReturns
    \/ resolveThrows
    \/ \E probe, recheck \in BOOLEAN, g \in [1..MaxGraphRequests -> GraphOutcomes],
          transfers \in TransferOutcomes :
          holdersStage(probe, recheck, g, transfers)
    \/ EnterAggregation /\ aggregating
    \/ \E c \in DOMAIN chunkState : Aggregate3Returns(c) /\ aggregating
    \/ \E c \in DOMAIN chunkState : Aggregate3Throws(c) /\ aggregating
    \/ \E c \in DOMAIN chunkState : BackoffElapsed(c) /\ aggregating
    \/ BatchResolved /\ aggregating
    \/ aggregationReturns
    \/ \E t \in RequestTimes, useCache \in UseCacheValues, src \in GraphSources,
          outcome \in GraphHolderOutcomes :
          graphHandler(t, useCache, src, outcome)
    \/ \E t \in RequestTimes, src \in GraphSources, outcome \in GraphHolderOutcomes :
          graphJsHandler(t, src, outcome)

Spec == Init /\ [][Next]_vars

(***************************************************************************)
(* SpecStore: requests to the optimized route while the files under data/  *)
(* may fail to be read and written; every upstream service answers         *)
(***************************************************************************)
\* data/block-cache.json and data/holders-cache.json as the module finds
\* them when it is loaded
StoredBlockCache == (ScenarioTime + 100000) :> BlockBefore(ScenarioTime + 100000)

StoredHoldersCache ==
    [snapshots |-> ScenarioBlock :> <<1, 2>>,
     timestamps |-> ScenarioBlock :> ScenarioTime]

\* Address a holds a ether and a wei
OddBalance(a) == bnAdd(parseEther(a), bnFromInt(a))

\* loadBlockNumberCache and loadHoldersCache have run: each cache in memory
\* is what its file holds, or is empty after a failed read or parse
InitStore ==
    /\ addresses = << >> /\ blockNumber = 0 /\ balances = << >>
    /\ batchStart = 0 /\ chunkState = << >> /\ aggPc = "idle"
    /\ fbBalances = << >> /\ fbNext = 0 /\ aggResult = << >>
    /\ ethBalance = [a \in KnownAddresses |-> OddBalance(a)]
    /\ fundingBlock = MintBlock
    /\ failedEntries = {} /\ failedQueries = {}
    /\ thrownCalls = 0 /\ callFailureBudget = 0
    /\ fsFaulty = TRUE
    /\ runs = << >>
    /\ blockCacheFile = StoredBlockCache
    /\ blockNumberCache \in {StoredBlockCache, << >>}
    /\ rsPc = "idle" /\ rsT = 0 /\ rsEst = 0
    /\ low = 0 /\ high = 0 /\ result = 0
    /\ iterations = 0 /\ lastMid = 0 /\ consecutiveErrors = 0
    /\ rsResult = 0 /\ tried = << >> /\ failedSources = {}
    /\ resolved = << >> /\ origin = << >> /\ probeFailures = 0 /\ resolveCalls = 0
    /\ estimateMisses = 0 /\ probeBudget = 0
    /\ holdersCacheFile = StoredHoldersCache
    /\ \E loaded \in BOOLEAN :
          /\ holdersCache = IF loaded THEN StoredHoldersCache.snapshots ELSE << >>
          /\ holdersTimestamps = IF loaded THEN StoredHoldersCache.timestamps ELSE << >>
    /\ optimalGraphQLBatchSize = 10000
    /\ holders = << >> /\ holdersPath = "none" /\ holdersBlock = 0
    /\ fetchFailed = FALSE
    /\ tokenOwners = <<1, 2, 3, 4, 5, Checksummed(1), 2>>
    /\ resultsFile = << >> /\ plPc = "idle" /\ plBlock = 0
    /\ metrics = ZeroMetrics /\ startTime = 0 /\ stageStart = 0 /\ clock = 0
    /\ trace = << >> /\ response = NoResponse /\ lastRequest = NoRequest
    /\ requests = 0

NextStore ==
    \/ \E t \in RequestTimes, useCache \in UseCacheValues :
          handlerServesCached(t, useCache)
    \/ \E t \in RequestTimes, useCache \in UseCacheValues :
          computeServesCached(t, useCache)
    \/ \E t \in RequestTimes, useCache \in UseCacheValues :
          computeStarts(t, useCache)
    \/ EtherscanAnswers(0) /\ resolving
    \/ VerifyAnswers("ok") /\ resolving
    \/ resolveReturns
    \/ holdersStage(TRUE, TRUE, AllAnswered, "ok")
    \/ EnterAggregation /\ aggregating
    \/ \E c \in DOMAIN chunkState : Aggregate3Returns(c) /\ aggregating
    \/ BatchResolved /\ aggregating
    \/ aggregationReturns

SpecStore == InitStore /\ [][NextStore]_vars

Range(f) == {f[x] : x \in DOMAIN f}

RECURSIVE bnSumOver(_)
bnSumOver(S) ==
    IF S = {} THEN bnZero
    ELSE LET a == CHOOSE x \in S : TRUE
         IN  bnAdd(getEthBalance(a, blockNumber), bnSumOver(S \ {a}))

AllAggregateCallsSucceeded ==
    thrownCalls = 0 /\ failedEntries \cap Range(addresses) = {}

\* C1: when every aggregate call and every entry succeeds, entry i of the
\* returned array is the balance of address i at the block, and the total is
\* the exact sum of the balances of the addresses, each counted once, for
\* every list length (below, at and above the chunk size, multiple or not).
C1_ExactSum ==
    (aggPc = "returned" /\ AllAggregateCallsSucceeded) =>
        /\ Len(aggResult) = Len(addresses)
        /\ \A i \in 1..Len(addresses) :
              aggResult[i] = getEthBalance(addresses[i], blockNumber)
        /\ sumBalances(aggResult) = bnSumOver(Range(addresses))

C1_Witness ==
    /\ aggPc = "returned" /\ AllAggregateCallsSucceeded
    /\ Len(addresses) > concurrencyLimit * chunkSize
    /\ Len(addresses) % chunkSize # 0
    /\ blockNumber >= fundingBlock
    \* seven balances of 2^53 + a wei: 63050394783186972 wei
    /\ sumBalances(aggResult) = <<783186972, 63050394>>

(***************************************************************************)
(* Claims about block resolution (SpecResolve)                             *)
(***************************************************************************)
\* Every request the calls so far made was answered correctly or not at all:
\* no block probe failed and Etherscan, when it answered, named the block
\* asked for
UpstreamAnswersCorrect == probeFailures = 0 /\ estimateMisses = 0

\* C8: the block resolve returns for t has a timestamp <= t (the first half
\* of the claim; stated here for calls whose upstream answers were all
\* correct, so that a violation is the resolver's own doing)
C8_NotAfterTimestamp ==
    (rsPc = "returned" /\ UpstreamAnswersCorrect) =>
        BlockTimestamp(rsResult) <= rsT

\* C9: for timestamps t1 < t2 that resolved, resolve(t1) <= resolve(t2)
\* (stated here for calls whose upstream answers were all correct)
C9_Monotone ==
    UpstreamAnswersCorrect =>
        \A t1, t2 \in DOMAIN resolved :
            t1 < t2 => resolved[t1] <= resolved[t2]

IsPrefix(s, t) == Len(s) <= Len(t) /\ s = SubSeq(t, 1, Len(s))

\* C10: the sources are asked in the order index service, binary search,
\* table; a source is asked only after the ones before it failed; an error
\* is raised only after all three failed, so a failure of the index service
\* alone or of block probes is not raised.
C10_FallThrough ==
    /\ IsPrefix(tried, <<"index", "search", "table">>)
    /\ \A k \in 2..Len(tried) : tried[k - 1] \in failedSources
    /\ rsPc = "error" =>
          /\ tried = <<"index", "search", "table">>
          /\ failedSources = {"index", "search", "table"}
          /\ ~hasFallbackData(rsT)

C10_Witness ==
    /\ rsPc = "error"
    /\ tried = <<"index", "search", "table">>
    /\ probeFailures > 0

(***************************************************************************)
(* Claims about the API handlers and the pipeline (Spec)                   *)
(***************************************************************************)
Stages ==
    <<"CHECK_CACHE", "RESOLVE_BLOCK", "BUILD_HOLDERS", "AGGREGATE_BALANCE", "PERSIST">>

\* The last request went to the optimized route with a timestamp and has
\* been answered
OptimizedAnswered ==
    /\ lastRequest.implementation = "optimizedSolution"
    /\ lastRequest.method = "POST" /\ lastRequest.timestamp # 0
    /\ plPc = "idle" /\ response.status # 0

\* The scenario of C2: the request for ScenarioTime has run the whole
\* pipeline, the index service answered block 14723000, and the holder list
\* has 5 distinct addresses whose balances at the block are 1, 2, 3, 4, 5 ETH
EndToEndScenario ==
    /\ OptimizedAnswered
    /\ lastRequest.timestamp = ScenarioTime
    /\ trace = Stages \o <<"DONE">>
    /\ rsT = ScenarioTime /\ tried = <<"index">> /\ rsEst = ScenarioBlock
    /\ Len(holders) = 5
    /\ Cardinality({toLowerCase(holders[i]) : i \in 1..5}) = 5
    /\ {getEthBalance(holders[i], plBlock) : i \in 1..5}
          = {parseEther(k) : k \in 1..5}

\* C2 as stated: in the scenario the response has totalEth "15", holderCount
\* 5 and block 14723000
C2_TotalIs15 ==
    EndToEndScenario =>
        /\ response.body.totalEth = <<"1", "5">>
        /\ response.body.holderCount = 5
        /\ response.body.blockNumber = 14723000

\* C2, amended: in the scenario the response has totalEth "15.0", holderCount
\* 5 and block 14723000
C2_TotalIs15Point0 ==
    EndToEndScenario =>
        /\ response.status = 200
        /\ response.body.totalEth = <<"1", "5", ".", "0">>
        /\ response.body.holderCount = 5
        /\ response.body.blockNumber = 14723000

C2_Witness ==
    /\ EndToEndScenario
    /\ response.body.totalWei = parseEther(15)
    /\ holdersPath = "graph"

\* C3: a request to the optimized route with useCache=false is answered by a
\* run of the stages, never from the stored result
C3_UncachedRequestRecomputes ==
    (OptimizedAnswered /\ lastRequest.useCache = "false") =>
        /\ "fromCache" \notin DOMAIN response.body
        /\ \E k \in 1..Len(trace) : trace[k] = "RESOLVE_BLOCK"

\* The block, holder count and total of a stored record or a response body
Snapshot(r) ==
    [block |-> IF "blockNumber" \in DOMAIN r THEN r.blockNumber ELSE r.block,
     holderCount |-> r.holderCount,
     totalEth |-> r.totalEth]

\* This step receives a request that uses the cache and for which a record
\* is stored
CachedRequestStep ==
    /\ requests' = requests + 1
    /\ lastRequest'.method = "POST" /\ lastRequest'.timestamp # 0
    /\ lastRequest'.useCache # "false"
    /\ <<lastRequest'.implementation, lastRequest'.timestamp>> \in DOMAIN resultsFile

\* The request of this step is answered from the stored record: the same
\* block, holder count and total, no stage after the cache check
ServedFromRecord ==
    /\ response'.status = 200
    /\ Snapshot(response'.body)
          = Snapshot(resultsFile[<<lastRequest'.implementation, lastRequest'.timestamp>>])
    /\ \A k \in 1..Len(trace') : trace'[k] \in {"CHECK_CACHE", "DONE"}

RunEndedInError ==
    /\ OptimizedAnswered
    /\ trace # << >> /\ trace[Len(trace)] = "ERROR"

\* C5: a failed run ends with a result that has an error string, block 0,
\* holder count 0, total 0 and the metrics, and that result is stored under
\* (optimizedSolution, timestamp)
C5_ErrorResultPersisted ==
    RunEndedInError =>
        /\ "error" \in DOMAIN response.body
        /\ response.body.blockNumber = 0
        /\ response.body.holderCount = 0
        /\ response.body.totalWei = bnZero
        /\ response.body.totalEth = <<"0">>
        /\ response.body.metrics = metrics
        /\ HasResult("optimizedSolution", lastRequest.timestamp)

\* C6: a response with a success status carries no error result, no zeroed
\* result and no demo values
C6_NoErrorWithSuccessStatus ==
    response.status = 200 =>
        /\ "error" \notin DOMAIN response.body
        /\ response.body.implementation # "graph-fallback"
        /\ ~(/\ Snapshot(response.body).block = 0
             /\ response.body.holderCount = 0
             /\ response.body.totalEth = <<"0">>)

\* C7: the stages of a run occur in the order cache check, block resolution,
\* holder building, balance aggregation, persist; holder building starts
\* after block resolution returned and uses its block, aggregation starts
\* after holder building returned and uses the same block and its holders,
\* the result is persisted only after aggregation, and a run ends either in
\* DONE with a result or in ERROR with an error result.
C7_StageOrder ==
    /\ plPc = "resolve" => trace = SubSeq(Stages, 1, 2)
    /\ plPc = "holders" =>
          /\ trace = SubSeq(Stages, 1, 3)
          /\ rsPc = "returned" /\ plBlock = rsResult
    /\ plPc = "aggregate" =>
          /\ trace = SubSeq(Stages, 1, 4)
          /\ rsPc = "returned" /\ plBlock = rsResult
          /\ holdersBlock = plBlock /\ blockNumber = plBlock
          /\ addresses = holders /\ Len(holders) > 0
    /\ plPc = "idle" =>
          \/ trace = << >>
          \/ /\ trace \in {SubSeq(Stages, 1, 1) \o <<"DONE">>, Stages \o <<"DONE">>}
             /\ response.status = 200 /\ "error" \notin DOMAIN response.body
             /\ HasResult("optimizedSolution", lastRequest.timestamp)
          \/ /\ trace \in {SubSeq(Stages, 1, 2) \o <<"ERROR">>,
                           SubSeq(Stages, 1, 3) \o <<"ERROR">>}
             /\ "error" \in DOMAIN response.body
    /\ \A t \in RequestTimes :
          HasResult("optimizedSolution", t) =>
              "error" \notin DOMAIN getPreviousResults("optimizedSolution", t)

C7_Witness ==
    /\ plPc = "idle" /\ trace = Stages \o <<"DONE">>
    /\ holdersBlock = rsResult /\ blockNumber = rsResult
    /\ getPreviousResults("optimizedSolution", lastRequest.timestamp).block = rsResult
    /\ thrownCalls > 0

\* The last run of the optimized pipeline succeeded on a block that its call
\* of getBlockNumberAtTimestamp took from the built-in table
RunOnTableBlock ==
    /\ OptimizedAnswered
    /\ trace = Stages \o <<"DONE">>
    /\ rsT = lastRequest.timestamp
    /\ tried # << >> /\ tried[Len(tried)] = "table"
    /\ response.body.blockNumber = getFallbackBlockNumber(rsT)

\* What every successful run writes into its result, whatever gave the block
UnmarkedResult(body) ==
    /\ DOMAIN body = {"blockNumber", "holderCount", "totalWei", "totalEth",
                      "executionTime", "metrics", "method", "implementation"}
    /\ body.method = "Optimized pipeline with enhanced caching"
    /\ body.implementation = "optimizedSolution"

\* C11: the result of a run whose block came from the built-in table is
\* marked: it differs, in a field or in its method or implementation name,
\* from the result of a run whose block an upstream source resolved
C11_TableBlockMarked ==
    RunOnTableBlock => ~UnmarkedResult(response.body)

(***************************************************************************)
(* Claims about getBAYCHoldersAtBlock, checked under SpecHolders           *)
(***************************************************************************)
\* A call of getBAYCHoldersAtBlock has returned
HoldersReturned == holdersPath # "none"

\* C12: no address list returned by getBAYCHoldersAtBlock contains the zero
\* address, whichever path gave it
C12_NoZeroAddress ==
    HoldersReturned => \A i \in 1..Len(holders) : holders[i] # ZeroAddress

\* C13: every address list returned by getBAYCHoldersAtBlock has no
\* duplicate entries and holds only addresses in lowercase form
C13_UniqueLowercase ==
    HoldersReturned =>
        /\ \A i, j \in 1..Len(holders) : holders[i] = holders[j] => i = j
        /\ \A i \in 1..Len(holders) : holders[i] = toLowerCase(holders[i])

\* The step is a call for the block of the call before it, and that call
\* found no snapshot under the block
SecondCallForBlock ==
    /\ holdersBlock' = holdersBlock
    /\ holdersPath \notin {"none", "exact"}

\* C14: getBAYCHoldersAtBlock called for a block without a snapshot and then
\* again for the same block returns the same set of addresses both times,
\* whichever other snapshots the cache holds
C14_SameSetTwice ==
    [][SecondCallForBlock => Range(holders') = Range(holders)]_vars

\* In the last call the subgraph failed at both page sizes and the
\* tokennfttx request threw
AllSourcesFailed == holdersPath = "sample" /\ fetchFailed

\* C15: when the subgraph and every fallback have failed the call raises:
\* it returns no holder set and writes none to the holder cache
C15_RaisesWhenAllFail ==
    AllSourcesFailed =>
        /\ holders = << >>
        /\ holdersBlock \notin DOMAIN holdersCache
        /\ holdersBlock \notin DOMAIN holdersCacheFile.snapshots

\* The suggested page size is within its floor and its cap
SizeInRange == optimalGraphQLBatchSize \in 500..10000

\* The step is a call in which a page request at the suggested page size
\* failed while that size was above the floor
PageFetchFailed == fetchFailed' /\ optimalGraphQLBatchSize > 500

\* C19: a call in which a page request at the suggested page size s > 500
\* failed leaves a suggested page size strictly below s, and the suggested
\* page size is always within [500, 10000]
C19_FailureLowers ==
    /\ []SizeInRange
    /\ [][PageFetchFailed => optimalGraphQLBatchSize' < optimalGraphQLBatchSize]_vars

\* The step is a call answered by the subgraph at the suggested page size
\* without a failed request, made while that size is below the cap
SuccessBelowCap ==
    /\ holdersPath' = "graph" /\ ~fetchFailed'
    /\ optimalGraphQLBatchSize < 10000

\* A successful query leaves the suggested page size as it was
SuccessKeepsSize ==
    [][SuccessBelowCap => optimalGraphQLBatchSize' = optimalGraphQLBatchSize]_vars

\* C20: once a failure has lowered the suggested page size below the cap,
\* every successful holder query raises it, until it is at the cap again
C20_SuccessRaises ==
    [][SuccessBelowCap => optimalGraphQLBatchSize' > optimalGraphQLBatchSize]_vars

(***************************************************************************)
(* Claims about getEthBalancesgraph and getFallbackBalances (SpecAgg)      *)
(***************************************************************************)
\* The chunks whose aggregate3 call threw through all its retries
AbandonedChunks == {c \in DOMAIN chunkState : chunkState[c].st = "rejected"}

\* The positions of chunk c in the address list
PositionsOf(c) ==
    (c * chunkSize + 1)..Min((c + 1) * chunkSize, Len(addresses))

AllIndividualQueriesSucceed == failedQueries \cap Range(addresses) = {}

C17_AlwaysReturns ==
    /\ ~(ENABLED NextAgg) => aggPc = "returned"
    /\ aggPc = "returned" =>
          /\ Len(aggResult) = Len(addresses)
          /\ \A p \in 1..Len(addresses) :
                /\ aggResult[p] \in {bnZero, getEthBalance(addresses[p], blockNumber)}
                /\ (AbandonedChunks # {} /\ addresses[p] \in failedQueries) =>
                      aggResult[p] = bnZero
                /\ (AbandonedChunks = {} /\ addresses[p] \in failedEntries) =>
                      aggResult[p] = bnZero

C17_Witness ==
    /\ aggPc = "returned" /\ AbandonedChunks # {}
    /\ Len(addresses) = MaxChunkCount * chunkSize + 1
    /\ failedQueries = {7} /\ addresses[1] = 7
    /\ blockNumber >= fundingBlock
    /\ aggResult[1] = bnZero /\ aggResult[7] = getEthBalance(1, blockNumber)
    /\ aggResult[7] # bnZero

\* The chunks whose aggregate3 call is awaited
InFlight == {c \in DOMAIN chunkState : chunkState[c].st = "calling"}

\* The chunks for which a call has been issued: those of the batches before
\* batchStart and those of the batch at batchStart
Dispatched ==
    IF aggPc = "start" THEN {}
    ELSE 0..(batchStart + Cardinality(DOMAIN chunkState) - 1)

\* The step issues a call for chunk c
IssuesCall(c) == c \in InFlight' /\ c \notin InFlight

\* C18: at most concurrencyLimit = 3 chunk calls are in flight at any
\* moment; while no call has thrown, a call is issued only for a chunk that
\* had none issued before, and at the return every chunk has had its call
C18_BoundedWindow ==
    /\ [](Cardinality(InFlight) <= concurrencyLimit)
    /\ [][\A c \in DOMAIN chunkState' :
             (IssuesCall(c) /\ thrownCalls' = 0) => c \notin Dispatched]_vars
    /\ []((aggPc = "returned" /\ thrownCalls = 0) =>
             Dispatched = 0..(NumChunks(addresses) - 1))

C18_Witness ==
    /\ aggPc = "batch" /\ thrownCalls = 0
    /\ NumChunks(addresses) = concurrencyLimit + 1
    /\ batchStart = concurrencyLimit /\ InFlight = {concurrencyLimit}

(***************************************************************************)
(* Claims about the files under data/ (SpecStore)                          *)
(***************************************************************************)
\* The last request has been answered after a run of all the stages
RanAllStages == plPc = "idle" /\ trace = Stages \o <<"DONE">>

\* Between two requests, or in a stage whose next step is at hand: awaiting
\* an answer for the block, about to build the holders, awaiting chunk calls
StoreRunGoesOn ==
    \/ plPc = "idle"
    \/ plPc = "resolve" /\ rsPc \in {"etherscan", "verify", "returned"}
    \/ plPc = "holders"
    \/ /\ plPc = "aggregate"
       /\ aggPc \in {"start", "batch", "returned"}
       /\ \A c \in DOMAIN chunkState : chunkState[c].st \in {"calling", "done"}

\* C21: whichever reads and writes of data/results.json, block-cache.json
\* and holders-cache.json fail, a request is never left unanswered and is
\* never answered with an error; a run of the stages returns the result it
\* computed: the block of the timestamp, the holders' number and the sum of
\* their balances
C21_StoreFailuresNotFatal ==
    /\ StoreRunGoesOn
    /\ (plPc = "idle" /\ requests > 0) =>
          /\ response.status = 200
          /\ "error" \notin DOMAIN response.body
    /\ RanAllStages =>
          /\ response.body.blockNumber = BlockBefore(lastRequest.timestamp)
          /\ response.body.holderCount = Len(holders)
          /\ response.body.totalWei = bnSumOver(Range(addresses))

\* Both caches were empty after the module was loaded although their files
\* held entries, no write of the two requests reached a file, and the
\* second request was answered with the 15 ether and 15 wei of the five
\* holders
C21_Witness ==
    /\ RanAllStages /\ requests = 2
    /\ response.status = 200 /\ response.body.totalWei = OddBalance(15)
    /\ resultsFile = << >>
    /\ blockCacheFile = StoredBlockCache
    /\ DOMAIN blockNumberCache = {ScenarioTime}
    /\ holdersCacheFile = StoredHoldersCache
    /\ Len(holdersCache[ScenarioBlock]) = 5

\* The step is a run's saveResultsToFile writing its record
ResultPersisted ==
    /\ plPc = "aggregate" /\ plPc' = "idle"
    /\ resultsFile' # resultsFile

\* The record rec read back has every field of the result r with r's value,
\* the total as the decimal string of exactly r's total
ReadsBackAs(r, rec) ==
    /\ \A f \in DOMAIN r \ {"totalWei"} : f \in DOMAIN rec /\ rec[f] = r[f]
    /\ \A i \in 1..Len(rec.totalWei) : \E d \in 1..10 : rec.totalWei[i] = DigitChars[d]
    /\ bnFromString(rec.totalWei) = r.totalWei

\* C22: the record that getPreviousResults reads after saveResultsToFile
\* has persisted a result equals that result field for field, its total
\* being the exact decimal string of the result's total
C22_RoundTrip ==
    [][ResultPersisted =>
         ReadsBackAs(response'.body,
                     resultsFile'[<<"optimizedSolution", lastRequest.timestamp>>])]_vars

\* A persisted total above 2^64 wei that is not a whole number of gwei
C22_Witness ==
    /\ RanAllStages
    /\ HasResult("optimizedSolution", lastRequest.timestamp)
    /\ getPreviousResults("optimizedSolution", lastRequest.timestamp).totalWei
          = <<"1", "5", "0", "0", "0", "0", "0", "0", "0", "0",
              "0", "0", "0", "0", "0", "0", "0", "0", "1", "5">>
    /\ response.body.totalWei = OddBalance(15)

(***************************************************************************)
(* Claims about the block cache (SpecResolve)                              *)
(***************************************************************************)
\* C23: after a resolve(t) that returned b the block cache maps t to b, and
\* every later resolve(t) returns b without a request to the index service or
\* to the chain node, whichever path the first call took.
C23_ResolvedIsCached ==
    [][/\ rsPc' = "returned" =>
             /\ rsT' \in DOMAIN blockNumberCache'
             /\ blockNumberCache'[rsT'] = rsResult'
       /\ \A t \in DOMAIN resolved :
             getBlockNumberAtTimestamp(t) =>
                 /\ rsPc' = "returned"
                 /\ rsResult' = resolved[t]
                 /\ tried' = << >>]_vars

\* A second call for the only timestamp resolved so far was answered from
\* the cache, with a block the first call took from an unverified estimate
C23_Witness ==
    /\ resolveCalls = 2
    /\ rsPc = "returned"
    /\ tried = << >>
    /\ DOMAIN resolved = {rsT}
    /\ rsResult # BlockBefore(rsT)

\* The cached timestamps closest to t
ClosestCached(t) ==
    {c \in DOMAIN blockNumberCache :
        \A d \in DOMAIN blockNumberCache : Abs(c - t) <= Abs(d - t)}

\* The cache has no entry for t and an entry less than 30 s away
TightWindowCase(t) ==
    /\ t \notin DOMAIN blockNumberCache
    /\ \E c \in DOMAIN blockNumberCache : Abs(c - t) < 30

\* C24: when the block cache has no entry for t and has one for a timestamp
\* less than 30 s away, resolve(t) returns the block cached for the closest
\* cached timestamp without any upstream request, and the cache then maps t
\* to that block.
C24_TightWindow ==
    [][\A t \in ResolveTimes :
          (TightWindowCase(t) /\ getBlockNumberAtTimestamp(t)) =>
              /\ rsPc' = "returned"
              /\ tried' = << >>
              /\ \E c \in ClosestCached(t) : rsResult' = blockNumberCache[c]
              /\ t \in DOMAIN blockNumberCache'
              /\ blockNumberCache'[t] = rsResult'
              /\ \A d \in DOMAIN blockNumberCache :
                    blockNumberCache'[d] = blockNumberCache[d]]_vars

\* The third call was answered from the closer of two cached timestamps
\* less than 30 s away, which are cached with different blocks
C24_Witness ==
    /\ resolveCalls = 3
    /\ rsPc = "returned"
    /\ tried = << >>
    /\ rsT = ScenarioTime + 5
    /\ DOMAIN blockNumberCache = {ScenarioTime, ScenarioTime + 5, ScenarioTime + 31}
    /\ blockNumberCache[ScenarioTime] # blockNumberCache[ScenarioTime + 31]
    /\ blockNumberCache[rsT] = blockNumberCache[ScenarioTime]

\* A call is under way for a timestamp that has no cache entry less than
\* 30 s away (the call would have returned) but has one less than 600 s away
SeedCase ==
    /\ rsPc \in {"etherscan", "verify", "latest", "search"}
    /\ nearbyTimestamps(blockNumberCache, rsT) # {}

\* The block cached for the closest cached timestamp
SeedBlock == blockNumberCache[closestTimestamp(blockNumberCache, rsT)]

\* How far from the seed a seeded search may probe: the 1000 blocks a
\* narrowed search adds to its starting point, and the blocks mined in 600 s
SeedWindow == 1000 + 600 \div BlockInterval + 1

\* C25: when the closest cached timestamp is at least 30 s and less than
\* 600 s away from t, resolve(t) uses the block cached for it as the seed of
\* its search: the blocks it probes lie in a bounded window around that block.
C25_SeededSearch ==
    SeedCase =>
        /\ rsPc = "verify" => Abs(rsEst - SeedBlock) <= SeedWindow
        /\ (rsPc = "search" /\ LoopContinues) => Abs(Mid - SeedBlock) <= SeedWindow

(***************************************************************************)
(* Claims about the holder cache and the holder sources (SpecHolders)      *)
(***************************************************************************)
\* The last call computed its holder set: it took it from the subgraph or
\* from a fallback, not from a snapshot
HoldersComputed == holdersPath \in {"graph", "graphReduced", "transfers", "sample"}

\* C26: after getBAYCHoldersAtBlock(block) has computed a holder set, the
\* holder cache, in memory and in the file, holds that set under the block
\* number, and the timestamp index holds the block's timestamp.
C26_WriteThrough ==
    HoldersComputed =>
        /\ holdersBlock \in DOMAIN holdersCache
        /\ holdersCache[holdersBlock] = holders
        /\ holdersBlock \in DOMAIN holdersCacheFile.snapshots
        /\ holdersCacheFile.snapshots[holdersBlock] = holders
        /\ holdersBlock \in DOMAIN holdersTimestamps
        /\ holdersTimestamps[holdersBlock] = BlockTimestamp(holdersBlock)
        /\ holdersBlock \in DOMAIN holdersCacheFile.timestamps
        /\ holdersCacheFile.timestamps[holdersBlock] = BlockTimestamp(holdersBlock)

IndexedPath == holdersPath \in {"graph", "graphReduced"}

\* The owners, in lowercase, of the tokens the subgraph lists at block b
ListedOwners(b) == {toLowerCase(tokenOwners[k]) : k \in 1..TokenSupply(b)}

\* C28: a holder set returned by the indexed-query path without falling back
\* contains the owner of every token the indexer lists at the block; a
\* failure in the middle of paging never yields a partial set.
C28_IndexedComplete ==
    IndexedPath => ListedOwners(holdersBlock) \subseteq Range(holders)

\* C29: the transfer-log fallback returns exactly the addresses, other than
\* the zero address, that hold a token after every transfer up to the target
\* block was applied in order (here: every listed token's owner, each token
\* having been minted to its owner before the blocks asked for).
C29_TransferLogExact ==
    holdersPath = "transfers" =>
        Range(holders) = ListedOwners(holdersBlock) \ {ZeroAddress}

(***************************************************************************)
(* Claims about failed entries of an aggregate call (SpecAgg)              *)
(***************************************************************************)
\* The step is the return of the aggregate call of chunk c, and an entry of
\* the chunk reports failure
PartlyFailedReturn(c) ==
    /\ chunkState[c].st = "calling"
    /\ c \in DOMAIN chunkState' /\ chunkState'[c].st = "done"
    /\ \E p \in PositionsOf(c) : addresses[p] \in failedEntries

\* What an aggregate call that succeeded leaves at position p
EntryBalance(p) ==
    IF addresses[p] \in failedEntries THEN bnZero
    ELSE getEthBalance(addresses[p], blockNumber)

\* C30: when the call of a chunk succeeds and some of its entries report
\* failure, every other entry of the chunk gets its true balance and each
\* failed entry stays zero, the chunk is not retried and the step does not
\* start the individual queries; with no chunk abandoned this is what is
\* returned.
C30_PartialChunk ==
    [][/\ \A c \in DOMAIN chunkState :
             PartlyFailedReturn(c) =>
                 /\ \A p \in PositionsOf(c) : balances'[p] = EntryBalance(p)
                 /\ chunkState'[c].retries = chunkState[c].retries
                 /\ thrownCalls' = thrownCalls
                 /\ aggPc' = aggPc
                 /\ fbNext' = fbNext /\ fbBalances' = fbBalances
       /\ (aggPc' = "returned" /\ AbandonedChunks' = {}) =>
             \A p \in 1..Len(addresses) : aggResult'[p] = EntryBalance(p)]_vars

\* Seven addresses of 1 to 7 ether were summed with no call abandoned and
\* the entry of address 1 failing: 27 ether
C30_Witness ==
    /\ aggPc = "returned" /\ AbandonedChunks = {}
    /\ failedEntries = {1}
    /\ Len(addresses) = MaxChunkCount * chunkSize + 1
    /\ blockNumber >= fundingBlock
    /\ fbNext = 0
    /\ sumBalances(aggResult) = parseEther(27)

(***************************************************************************)
(* Claims about retries and the fallback of the aggregation (SpecAgg)      *)
(***************************************************************************)
\* The calls issued so far for chunk c of the batch
Attempts(c) ==
    IF chunkState[c].st \in {"calling", "done"} THEN chunkState[c].retries + 1
    ELSE chunkState[c].retries

\* C31 as stated: an aggregate chunk call that keeps failing is attempted at
\* most 3 times in total before the chunk is abandoned.
C31_ThreeAttempts ==
    \A c \in DOMAIN chunkState : Attempts(c) <= 3

\* The step is the return of the aggregate call of chunk c after a retry
RetrySucceeds(c) ==
    /\ chunkState[c].st = "calling" /\ chunkState[c].retries > 0
    /\ c \in DOMAIN chunkState' /\ chunkState'[c].st = "done"

\* C31, amended: a chunk call is attempted at most maxRetries + 1 = 4 times,
\* the k-th retry follows its failure by 500 * 2^(k-1) ms (500, 1000, 2000),
\* the chunk is abandoned only by the fourth failure, and a call that
\* succeeds on a retry stores the chunk's balances and starts no fallback.
C31_FourAttempts ==
    [][/\ \A c \in DOMAIN chunkState' :
             /\ Attempts(c)' <= maxRetries + 1
             /\ chunkState'[c].st = "rejected" <=> chunkState'[c].retries = maxRetries + 1
             /\ chunkState'[c].st = "backoff" =>
                   /\ chunkState'[c].retries \in 1..maxRetries
                   /\ chunkState'[c].delay \in {500, 1000, 2000}
                   /\ chunkState[c].st = "calling" =>
                         chunkState'[c].delay =
                            IF chunkState'[c].retries = 1 THEN 500
                            ELSE 2 * chunkState[c].delay
       /\ \A c \in DOMAIN chunkState :
             RetrySucceeds(c) =>
                 /\ \A p \in PositionsOf(c) : balances'[p] = EntryBalance(p)
                 /\ aggPc' = aggPc
                 /\ fbNext' = fbNext /\ fbBalances' = fbBalances]_vars

\* A chunk was abandoned by its fourth failure, the last retry having
\* waited 2000 ms
C31_Witness ==
    \E c \in DOMAIN chunkState :
        /\ chunkState[c].st = "rejected"
        /\ chunkState[c].retries = 4
        /\ chunkState[c].delay = 2000

\* The chunks whose aggregate call succeeded: those of the batches before
\* the current one, and the ones done in the current batch
SucceededChunks ==
    {c \in 0..(NumChunks(addresses) - 1) :
        \/ c < batchStart
        \/ c \in DOMAIN chunkState /\ chunkState[c].st = "done"}

\* C32: when a chunk is abandoned after its retries only that chunk's
\* addresses are queried individually: the balances obtained from the chunks
\* whose aggregate call succeeded are the ones returned for their addresses.
C32_OnlyAbandonedQueried ==
    (aggPc = "returned" /\ AbandonedChunks # {}) =>
        \A c \in SucceededChunks : \A p \in PositionsOf(c) :
            aggResult[p] = balances[p]

(***************************************************************************)
(* Claims about the requests in flight (SpecWindow)                        *)
(***************************************************************************)
\* The individual queries of the fallback round under way: those of the
\* batches fbNext .. fbNext + fallbackConcurrencyLimit - 1
RoundQueries ==
    IF aggPc = "fallback"
    THEN Min((fbNext + fallbackConcurrencyLimit) * batchSize, Len(addresses))
            - fbNext * batchSize
    ELSE 0

\* The upstream requests in flight: the aggregate calls issued and not yet
\* answered, and the individual queries of the round under way
UpstreamInFlight ==
    Cardinality({c \in DOMAIN chunkState : chunkState[c].st = "calling"})
        + RoundQueries

\* C33: during balance aggregation, the fallback and the moment a chunk
\* failure starts it included, the number of upstream requests in flight
\* never exceeds 10.
C33_WindowOfTen == UpstreamInFlight <= 10

(***************************************************************************)
(* SpecConcurrent: two getTotalEthValueOfHolders calls whose awaits         *)
(* interleave in one process                                               *)
(***************************************************************************)
Runs == {1, 2}

\* data/results.json before the calls: records of another implementation
\* and of another timestamp
StoredResults ==
    (<<"graph", ScenarioTime>> :> [timestamp |-> 0, totalEth |-> <<"1", ".", "0">>])
    @@ (<<"optimizedSolution", ScenarioTime - 86400>> :>
            [timestamp |-> 0, totalEth |-> <<"2", ".", "0">>])

IdleRun ==
    [pc |-> "idle", t |-> 0, startTime |-> 0, stageStart |-> 0, block |-> 0,
     holders |-> << >>, metrics |-> ZeroMetrics, trace |-> << >>,
     saved |-> 0, record |-> << >>]

\* What a step of one call leaves alone in every case
concurrentFrame ==
    UNCHANGED <<aggVars, ethBalance, fundingBlock, failedEntries, failedQueries,
                callFailureBudget, fsFaulty, thrownCalls, tokenOwners, rsPc, rsT,
                rsEst, searchVars, rsResult, tried, failedSources, resolved, origin,
                probeFailures, probeBudget, estimateMisses, resolveCalls, plPc,
                plBlock, metrics, startTime, stageStart, trace, response,
                lastRequest, requests>>

\* getTotalEthValueOfHolders(t) is called: a stored result is returned, and
\* otherwise Step 1 calls getBlockNumberAtTimestamp, which returns a cached
\* block at once or sends its request to Etherscan
RunStarts(i, t) ==
    /\ runs[i].pc = "idle"
    /\ clock' = clock + 1
    /\ IF HasResult("optimizedSolution", t)
       THEN /\ runs' = [runs EXCEPT ![i] =
                    [@ EXCEPT !.pc = "done", !.t = t, !.trace = <<"CHECK_CACHE">>,
                              !.record = getPreviousResults("optimizedSolution", t)]]
            /\ UNCHANGED <<blockNumberCache, blockCacheFile>>
       ELSE LET started == [runs[i] EXCEPT !.t = t, !.startTime = clock,
                                           !.stageStart = clock,
                                           !.trace = <<"CHECK_CACHE", "RESOLVE_BLOCK">>]
            IN  IF t \in DOMAIN blockNumberCache /\ blockNumberCache[t] # 0
                THEN /\ runs' = [runs EXCEPT ![i] =
                             [started EXCEPT !.pc = "resolved",
                                             !.block = blockNumberCache[t]]]
                     /\ UNCHANGED <<blockNumberCache, blockCacheFile>>
                ELSE IF /\ nearbyTimestamps(blockNumberCache, t) # {}
                        /\ Abs(t - closestTimestamp(blockNumberCache, t)) < 30
                THEN LET b == blockNumberCache[closestTimestamp(blockNumberCache, t)]
                     IN  /\ runs' = [runs EXCEPT ![i] =
                                 [started EXCEPT !.pc = "resolved", !.block = b]]
                         /\ blockNumberCache' = (t :> b) @@ blockNumberCache
                         /\ blockCacheFile' = blockNumberCache'
                ELSE /\ runs' = [runs EXCEPT ![i] = [started EXCEPT !.pc = "etherscan"]]
                     /\ UNCHANGED <<blockNumberCache, blockCacheFile>>
    /\ UNCHANGED <<resultsFile, holderVars>>
    /\ concurrentFrame

\* Etherscan answers and the block is accepted, verified (err = 0) or not:
\* it is cached and returned to Step 1
RunResolves(i, err) ==
    /\ runs[i].pc = "etherscan"
    /\ clock' = clock + 1
    /\ LET b == BlockBefore(runs[i].t) + err
       IN  /\ runs' = [runs EXCEPT ![i] = [@ EXCEPT !.pc = "resolved", !.block = b]]
           /\ blockNumberCache' = (runs[i].t :> b) @@ blockNumberCache
           /\ blockCacheFile' = blockNumberCache'
    /\ UNCHANGED <<resultsFile, holderVars>>
    /\ concurrentFrame

\* Step 2: getBAYCHoldersAtBlock is called and returns
RunBuildsHolders(i) ==
    /\ runs[i].pc = "resolved"
    /\ clock' = clock + 1
    /\ getBAYCHoldersAtBlock(runs[i].block, TRUE, TRUE, AllAnswered, "ok")
    /\ holdersBlock' = runs[i].block
    /\ runs' = [runs EXCEPT ![i] =
            [@ EXCEPT !.pc = IF Len(holders') = 0 THEN "failed" ELSE "aggregate",
                      !.holders = holders',
                      !.metrics = [@ EXCEPT
                          !.blockResolutionTime = clock - runs[i].stageStart],
                      !.stageStart = clock,
                      !.trace = Append(@, "BUILD_HOLDERS")]]
    /\ UNCHANGED <<resultsFile, blockNumberCache, blockCacheFile>>
    /\ concurrentFrame

\* Steps 3 and 4: getEthBalancesgraph returns the balances; they are summed
\* and the result is saved without another await in between
RunSaves(i) ==
    /\ runs[i].pc = "aggregate"
    /\ clock' = clock + 1
    /\ LET now == clock + 1
           hs == runs[i].holders
           bal == StoreChunkResults(ZeroBalances(Len(hs)), 0, 0,
                                    aggregate3(hs, runs[i].block))
           totalWei == sumBalances(bal)
           m == [runs[i].metrics EXCEPT
                    !.balanceResolutionTime = now - runs[i].stageStart,
                    !.totalTime = now - runs[i].startTime]
           r == [blockNumber |-> runs[i].block,
                 holderCount |-> Len(hs),
                 totalWei |-> totalWei,
                 totalEth |-> formatEther(totalWei),
                 executionTime |-> now - runs[i].startTime,
                 metrics |-> m,
                 method |-> "Optimized pipeline with enhanced caching",
                 implementation |-> "optimizedSolution"]
       IN  /\ resultsFile' = saveResultsToFile("optimizedSolution", runs[i].t, r, now)
           /\ runs' = [runs EXCEPT ![i] =
                   [@ EXCEPT !.pc = "done",
                             !.metrics = m,
                             !.trace = @ \o <<"AGGREGATE_BALANCE", "PERSIST">>,
                             !.saved = now,
                             !.record = ResultToSave("optimizedSolution", r, now)]]
    /\ UNCHANGED <<blockNumberCache, blockCacheFile, holderVars>>
    /\ concurrentFrame

\* Both calls idle; the addresses hold their balance from a block on that
\* lies between the blocks Etherscan may answer for a timestamp
InitConcurrent ==
    /\ addresses = << >> /\ blockNumber = 0 /\ balances = << >>
    /\ batchStart = 0 /\ chunkState = << >> /\ aggPc = "idle"
    /\ fbBalances = << >> /\ fbNext = 0 /\ aggResult = << >>
    /\ ethBalance = [a \in KnownAddresses |-> OddBalance(a)]
    /\ fundingBlock \in {MintBlock, ScenarioBlock + 10}
    /\ failedEntries = {} /\ failedQueries = {}
    /\ thrownCalls = 0 /\ callFailureBudget = 0
    /\ fsFaulty = FALSE
    /\ runs = [i \in Runs |-> IdleRun]
    /\ InitResolver
    /\ holdersCache = << >> /\ holdersTimestamps = << >>
    /\ holdersCacheFile = [snapshots |-> << >>, timestamps |-> << >>]
    /\ optimalGraphQLBatchSize = 10000
    /\ holders = << >> /\ holdersPath = "none" /\ holdersBlock = 0
    /\ fetchFailed = FALSE
    /\ tokenOwners = <<1, 2, 3, 4, 5, Checksummed(1), 2>>
    /\ resultsFile = StoredResults /\ plPc = "off" /\ plBlock = 0
    /\ metrics = ZeroMetrics /\ startTime = 0 /\ stageStart = 0 /\ clock = 0
    /\ trace = << >> /\ response = NoResponse /\ lastRequest = NoRequest
    /\ requests = 0

NextConcurrent ==
    \/ \E i \in Runs, t \in RequestTimes : RunStarts(i, t)
    \/ \E i \in Runs, err \in EstimateErrors : RunResolves(i, err)
    \/ \E i \in Runs : RunBuildsHolders(i)
    \/ \E i \in Runs : RunSaves(i)

SpecConcurrent == InitConcurrent /\ [][NextConcurrent]_vars

\* The calls that computed and saved a result for timestamp t
SavedRuns(t) == {i \in Runs : runs[i].pc = "done" /\ runs[i].saved # 0 /\ runs[i].t = t}

\* Of them the one that saved last
LastSaved(t) == CHOOSE i \in SavedRuns(t) : \A j \in SavedRuns(t) : runs[j].saved <= runs[i].saved

\* C34: two concurrent compute calls for the same uncached timestamp both
\* run the full pipeline; when both have finished the result store holds one
\* complete record for the key, the one written last, and the records under
\* all other keys are unchanged.
C34_LastWriterWins ==
    (\A i \in Runs : runs[i].pc = "done") =>
        /\ \A i \in Runs : runs[i].saved # 0 => runs[i].trace = Stages
        /\ \A t \in RequestTimes :
              IF SavedRuns(t) # {}
              THEN /\ HasResult("optimizedSolution", t)
                   /\ getPreviousResults("optimizedSolution", t) = runs[LastSaved(t)].record
              ELSE ~HasResult("optimizedSolution", t)
        /\ \A k \in DOMAIN StoredResults :
              k \in DOMAIN resultsFile /\ resultsFile[k] = StoredResults[k]
        /\ DOMAIN resultsFile \subseteq
              DOMAIN StoredResults \cup {<<"optimizedSolution", t>> : t \in RequestTimes}

\* Both calls computed the same timestamp, from different blocks and with
\* different totals, and the store holds the record of the later save
C34_Witness ==
    /\ \A i \in Runs : runs[i].pc = "done" /\ runs[i].saved # 0
    /\ runs[1].t = runs[2].t
    /\ runs[1].saved < runs[2].saved
    /\ runs[1].record.totalWei # runs[2].record.totalWei
    /\ runs[1].record.block # runs[2].record.block
    /\ getPreviousResults("optimizedSolution", runs[2].t) = runs[2].record

FirstBlockAtOrAfter(t) ==
    IF BlockTimestamp(BlockBefore(t)) = t THEN BlockBefore(t) ELSE BlockBefore(t) + 1

\* C36: whenever binarySearchBlock returns a block r, r has a timestamp >=
\* the target and differs by at most one from the smallest block of the
\* searched range with such a timestamp, for every range and every pattern
\* of probe failures (the ranges searched all hold that smallest block).
C36_SearchResult ==
    [][(rsPc = "search" /\ rsPc' = "returned") =>
          /\ BlockTimestamp(rsResult') >= rsT
          /\ Abs(rsResult' - FirstBlockAtOrAfter(rsT)) <= 1]_vars

(***************************************************************************)
(* Claims about reuse across timestamps and blocks                         *)
(***************************************************************************)
\* C37: after any sequence of resolve calls, every block returned through
\* the tight-window shortcut was first obtained from an upstream source for
\* a timestamp less than 30 s away from the timestamp now requested (the
\* entries a source gave for their own timestamp satisfy this trivially
\* unless the table gave them).
C37_ShortcutOrigin ==
    \A t \in DOMAIN origin :
        origin[t].at # t =>
            origin[t].upstream /\ Abs(origin[t].at - t) < 30

\* C38: whenever getBAYCHoldersAtBlock(block) is answered from a cached
\* snapshot that was computed for a different block, the timestamp of that
\* other block is less than 3600 s away from the timestamp of the requested
\* block.
C38_ReuseWithinHour ==
    [][holdersPath' \in {"nearbyTime", "nearbyBlock"} =>
          Abs(BlockTimestamp(CachedNearby(holdersBlock').from)
                - BlockTimestamp(holdersBlock')) < TIME_RADIUS]_vars

(***************************************************************************)
(* Claims about the totals of the implementation variants, checked under   *)
(* Spec                                                                    *)
(***************************************************************************)
\* The response reports the total of a run of this request, not a stored one
FreshTotal ==
    /\ response.status = 200
    /\ "totalEth" \in DOMAIN response.body
    /\ "fromCache" \notin DOMAIN response.body
    /\ "error" \notin DOMAIN response.body

\* The sum of what the node returns at block b for the addresses hs, an
\* address whose query fails counting as zero
NodeSum(hs, b) ==
    sumBalances([i \in 1..Len(hs) |->
                    IF toLowerCase(hs[i]) \in failedEntries \cup failedQueries
                    THEN bnZero
                    ELSE getEthBalance(hs[i], b)])

\* The holder lists a run of graph.ts or graph.js can have for block b
VariantHolders(b) ==
    {graphGetBAYCHoldersAtBlock(b, o) : o \in GraphHolderOutcomes}
        \cup {GraphOwners(b), sampleHolders}

\* C39: for every implementation variant, the total reported in a successful
\* response is the sum of the balances the node returned for the holder
\* addresses of that run, a failed address counting as zero, never a
\* constant or random value
C39_TotalIsNodeSum ==
    FreshTotal =>
        IF lastRequest.implementation = "optimizedSolution"
        THEN response.body.totalEth
                 = formatEther(NodeSum(holders, response.body.blockNumber))
        ELSE \E hs \in VariantHolders(response.body.block) :
                response.body.totalEth
                    = formatEther(NodeSum(hs, response.body.block))

====
